---- MODULE Spec2Model ----
(***************************************************************************)
(* The tiered translation subsystem of triagro-ai: OptimizedTranslation-  *)
(* Service, EnhancedGhanaNLPService, InstantTranslationService and         *)
(* HybridTranslationService, as one state machine.                        *)
(*                                                                         *)
(* JavaScript runs one task at a time.  An action of this module is one    *)
(* task of the event loop: a call made by the page, the completion of an   *)
(* HTTP request, a timer.  A promise continuation (a microtask) is the     *)
(* action Resume, and no other action is enabled while one is due.         *)
(*                                                                         *)
(* A JavaScript string is a sequence of one-character strings, so that     *)
(* toLowerCase, trim, split and the regular expressions are computed and   *)
(* not assumed.  The translations, which the source writes with letters    *)
(* outside ASCII, are written here with the nearest ASCII letter.          *)
(***************************************************************************)
EXTENDS Integers, Sequences, FiniteSets, TLC

(***************************************************************************)
(* JavaScript values and the string operations the services use.           *)
(***************************************************************************)
Str(s) == [ty |-> "string", v |-> s]

\* A value that is not a string: the number 42 (an array element, or a field
\* of a response body).
Num42 == [ty |-> "number", v |-> <<"4","2">>]

\* undefined (an absent field, a variable never assigned) and null
Undefined == [ty |-> "undefined", v |-> <<>>]

Null == [ty |-> "null", v |-> <<>>]

IsString(x) == x.ty = "string"

\* The truthiness of a value: "", undefined and null are falsy.
Truthy(x) ==
    CASE x.ty = "string" -> Len(x.v) > 0
      [] x.ty = "number" -> TRUE
      [] OTHER -> FALSE

\* a || b
Or(a, b) == IF Truthy(a) THEN a ELSE b

UpperChars == <<"A","B","C","D","E","F","G","H","I","J","K","L","M","N","O","P","Q","R","S","T","U",
      "V","W","X","Y","Z">>

LowerChars == <<"a","b","c","d","e","f","g","h","i","j","k","l","m","n","o","p","q","r","s","t","u",
      "v","w","x","y","z">>

Digits == {"0", "1", "2", "3", "4", "5", "6", "7", "8", "9"}

\* The lower-case letter of each upper-case letter
LowerOf ==
    [c \in {UpperChars[i] : i \in 1..Len(UpperChars)} |->
        LowerChars[CHOOSE i \in 1..Len(UpperChars) : UpperChars[i] = c]]

toLowerChar(c) == IF c \in DOMAIN LowerOf THEN LowerOf[c] ELSE c

\* The characters of s, written out
Chars(s) == SubSeq(s, 1, Len(s))

\* String.prototype.toLowerCase
toLowerCase(s) == Chars([i \in 1..Len(s) |-> toLowerChar(s[i])])

\* \s of a regular expression
IsSpace(c) == c \in {" ", "\t"}

\* \w of a regular expression
IsWordChar(c) ==
    \/ c \in DOMAIN LowerOf
    \/ \E i \in 1..Len(LowerChars) : LowerChars[i] = c
    \/ c \in Digits
    \/ c = "_"

\* s from the first to the last of the positions keep
TrimTo(s, keep) ==
    IF keep = {} THEN <<>>
    ELSE SubSeq(s, CHOOSE i \in keep : \A j \in keep : i <= j,
                   CHOOSE i \in keep : \A j \in keep : j <= i)

\* String.prototype.trim
trim(s) == TrimTo(s, {i \in 1..Len(s) : ~IsSpace(s[i])})

\* s.replace(/\s+/g, " "): of a run of white space its first character stays,
\* as a space.
collapseWhitespace(s) ==
    LET Kept(i) == ~IsSpace(s[i]) \/ i = 1 \/ ~IsSpace(s[i - 1])
        Collapsed(kept) ==
            Chars([k \in 1..Len(kept) |-> IF IsSpace(s[kept[k]]) THEN " " ELSE s[kept[k]]])
    IN  Collapsed(SelectSeq([i \in 1..Len(s) |-> i], Kept))

\* /^\d+$/.test(s)
IsDigits(s) == Len(s) > 0 /\ \A i \in 1..Len(s) : s[i] \in Digits

\* s.substring(i - 1, i - 1 + Len(w)) === w
MatchesAt(s, i, w) ==
    /\ i >= 1
    /\ i + Len(w) - 1 <= Len(s)
    /\ \A k \in 1..Len(w) : s[i + k - 1] = w[k]

\* String.prototype.includes
includes(s, w) == \E i \in 1..(Len(s) + 1) : MatchesAt(s, i, w)

\* String.prototype.endsWith
endsWith(s, w) == MatchesAt(s, Len(s) - Len(w) + 1, w)

\* \b at the gap before position i (1 <= i <= Len(s) + 1)
WordBoundary(s, i) ==
    LET before == i > 1 /\ IsWordChar(s[i - 1])
        after  == i <= Len(s) /\ IsWordChar(s[i])
    IN  before # after

\* w matches at position i of s, low being s in lower case
ReplaceFits(s, low, i, w, whole) ==
    /\ Len(w) > 0
    /\ MatchesAt(low, i, w)
    /\ whole => (WordBoundary(s, i) /\ WordBoundary(s, i + Len(w)))

RECURSIVE ReplaceFrom(_, _, _, _, _, _)
ReplaceFrom(s, low, i, w, by, whole) ==
    IF i > Len(s) THEN <<>>
    ELSE IF ReplaceFits(s, low, i, w, whole)
         THEN by \o ReplaceFrom(s, low, i + Len(w), w, by, whole)
         ELSE <<s[i]>> \o ReplaceFrom(s, low, i + 1, w, by, whole)

\* s.replace(new RegExp(w, "gi"), by), and with whole:
\* s.replace(new RegExp(`\\b${w}\\b`, "gi"), by); w is without
\* regular-expression operators.
replaceAllCI(s, w, by, whole) == ReplaceFrom(s, toLowerCase(s), 1, toLowerCase(w), by, whole)

IsTerminator(c) == c \in {".", "!", "?"}

Min(set) == CHOOSE i \in set : \A j \in set : i <= j

\* The pieces of s that begin after the positions begins, each up to the next
\* of the positions cuts
SplitPieces(s, begins, cuts) ==
    [k \in 1..Len(begins) |->
        SubSeq(s, begins[k] + 1, Min({j \in cuts : j > begins[k]}) - 1)]

\* s.split(/[.!?]+/): a piece begins at the start of s and after the last
\* terminator of a run, and ends before the next terminator or with s.
splitSentences(s) ==
    LET Begins(i) == \/ i = 0
                     \/ /\ IsTerminator(s[i])
                        /\ ~(i < Len(s) /\ IsTerminator(s[i + 1]))
    IN  SplitPieces(s, SelectSeq([i \in 1..(Len(s) + 1) |-> i - 1], Begins),
                    {i \in 1..(Len(s) + 1) : i = Len(s) + 1 \/ IsTerminator(s[i])})

RECURSIVE join(_, _)
\* Array.prototype.join
join(parts, sep) ==
    IF Len(parts) = 0 THEN <<>>
    ELSE IF Len(parts) = 1 THEN parts[1]
    ELSE parts[1] \o sep \o join(Tail(parts), sep)

\* A regular expression of the shape a.?b.?c: the parts in order, with at most
\* one character between two of them.
RECURSIVE PartsMatchAt(_, _, _)
PartsMatchAt(low, i, parts) ==
    IF Len(parts) = 0 THEN TRUE
    ELSE /\ MatchesAt(low, i, parts[1])
         /\ \/ PartsMatchAt(low, i + Len(parts[1]), Tail(parts))
            \/ /\ Len(parts) > 1
               /\ i + Len(parts[1]) <= Len(low)
               /\ PartsMatchAt(low, i + Len(parts[1]) + 1, Tail(parts))

\* regex.test(s) of a case-insensitive regular expression given as its
\* alternatives, each a sequence of parts joined by .?, low being s in lower
\* case
regexTestLow(alts, low) ==
    \E a \in 1..Len(alts) : \E i \in 1..(Len(low) + 1) : PartsMatchAt(low, i, alts[a])

regexTest(alts, s) == regexTestLow(alts, toLowerCase(s))

(***************************************************************************)
(* The tables of the services.                                             *)
(***************************************************************************)
\* The language codes, as the strings a key or a request is built from.
LangCodes == {"en", "tw", "ee", "ga", "dag", "ff", "ha"}

\* OptimizedTranslationService.supportedLanguages
OptSupportedLanguages == {"en", "tw", "ee", "dag"}

\* OptimizedTranslationService.isLanguageSupported
OptIsLanguageSupported(code) == code \in OptSupportedLanguages

\* EnhancedGhanaNLPService.supportedLanguagePairs (its keys)
supportedLanguagePairs ==
    { <<"en", "tw">>, <<"en", "ee">>, <<"en", "dag">>, <<"en", "ff">>, <<"en", "ha">>,
      <<"tw", "en">>, <<"ee", "en">>, <<"dag", "en">>, <<"ff", "en">>, <<"ha", "en">>,
      <<"tw", "ee">>, <<"ee", "tw">>, <<"tw", "dag">>, <<"dag", "tw">> }

\* EnhancedGhanaNLPService.maxRetries
maxRetries == 3

\* The threshold of OptimizedTranslationService.performTranslation: a longer
\* text goes to translateLongText.
LongTextLength == 300

\* The threshold of HybridTranslationService.isDiseaseTreatment.
TreatmentMinLength == 20

\* EnhancedGhanaNLPService.batchTranslate: batchSize
batchSize == 5

\* HybridTranslationService.isDiseaseTreatment: treatmentKeywords
treatmentKeywords ==
    << <<"a","p","p","l","y">>, <<"r","e","m","o","v","e">>, <<"s","p","r","a","y">>, <<"t","r","e","a","t">>, <<"f","u","n","g","i","c","i","d","e">>, <<"p","e","s","t","i","c","i",
      "d","e">>,
       <<"f","e","r","t","i","l","i","z","e","r">>, <<"w","a","t","e","r">>, <<"d","r","a","i","n","a","g","e">>, <<"c","i","r","c","u","l","a","t","i","o","n">>, <<"r","o","t","a","t","i","o","n">>,
       <<"p","r","e","v","e","n","t">>, <<"c","o","n","t","r","o","l">>, <<"m","o","n","i","t","o","r">>, <<"e","n","s","u","r","e">> >>

\* InstantTranslationService.compileDiseasePatterns: each regular expression
\* (its alternatives, each the parts that .? joins) with the name of its
\* template in treatmentTemplates.json.
diseasePatterns ==
    << [regex |-> << << <<"p","o","t","a","t","o">>, <<"e","a","r","l","y">>, <<"b","l","i","g","h","t">> >> >>, template |-> "potato_early_blight"],
       [regex |-> << << <<"e","a","r","l","y">>, <<"b","l","i","g","h","t">> >> >>, template |-> "early_blight"],
       [regex |-> << << <<"l","a","t","e">>, <<"b","l","i","g","h","t">> >> >>, template |-> "late_blight"],
       [regex |-> << << <<"p","o","w","d","e","r","y">>, <<"m","i","l","d","e","w">> >> >>, template |-> "powdery_mildew"],
       [regex |-> << << <<"t","a","r","g","e","t">>, <<"s","p","o","t">> >>, << <<"t","o","m","a","t","o">>, <<"t","a","r","g","e","t">>, <<"s","p","o","t">> >> >>,
        template |-> "target_spot"],
       [regex |-> << << <<"b","a","c","t","e","r","i","a","l">>, <<"s","p","o","t">> >> >>, template |-> "bacterial_spot"],
       [regex |-> << << <<"b","a","c","t","e","r","i","a","l">>, <<"w","i","l","t">> >> >>, template |-> "bacterial_wilt"],
       [regex |-> << << <<"m","o","s","a","i","c">>, <<"v","i","r","u","s">> >>, << <<"m","o","s","a","i","c">> >> >>, template |-> "mosaic_virus"],
       [regex |-> << << <<"l","e","a","f">>, <<"c","u","r","l">> >> >>, template |-> "leaf_curl"],
       [regex |-> << << <<"n","i","t","r","o","g","e","n">>, <<"d","e","f","i","c","i","e","n","c","y">> >> >>, template |-> "nitrogen_deficiency"],
       [regex |-> << << <<"p","h","o","s","p","h","o","r","u","s">>, <<"d","e","f","i","c","i","e","n","c","y">> >> >>,
        template |-> "phosphorus_deficiency"],
       [regex |-> << << <<"h","e","a","l","t","h","y">> >>, << <<"n","o">>, <<"d","i","s","e","a","s","e">> >> >>, template |-> "healthy_plant"],
       [regex |-> << << <<"p","r","e","v","e","n","t","i","o","n">> >>, << <<"p","r","e","v","e","n","t","i","v","e">> >> >>, template |-> "prevention"] >>

\* The entries of a template of treatmentTemplates.json.  The file is data the
\* services import; the model gives every template a Twi and an Ewe entry,
\* except potato_early_blight, which has a Twi entry only.
TemplateLangs(template) ==
    IF template = "potato_early_blight" THEN {"tw"} ELSE {"tw", "ee"}

\* template[targetLanguage]: a text that names the template and the language.
TemplateText(template, lang) ==
    Str(<<"[", template, ":", lang, "]">>)

\* commonPhrases of treatmentTemplates.json, as cacheCommonPhrases stores
\* them: the phrase in lower case, and its translations.
commonPhrases ==
    << [phrase |-> <<"c","r","o","p"," ","r","o","t","a","t","i","o","n">>,
        translations |-> [l \in {"tw", "ee"} |->
            IF l = "tw" THEN Str(<<"n","n","u","a"," ","s","e","s","a">>) ELSE Str(<<"n","u","k","u","w","o"," ","d","o","d",
      "o">>)]],
       [phrase |-> <<"p","l","a","n","t"," ","i","d","e","n","t","i","f","i","e","d">>,
        translations |-> [l \in {"tw"} |-> Str(<<"a","f","i","f","i","d","e"," ","a"," ","y","e",
      "h","u","n","u","u">>)]] >>

\* InstantTranslationService.getRapidReplacements
getRapidReplacements(targetLanguage) ==
    CASE targetLanguage = "tw" ->
           << <<<<"f","u","n","g","i","c","i","d","e">>, <<"n","n","u","r","u"," ","a"," ","e","k","o"," ","t","i","a"," ",
      "n","n","u","a"," ","n","h","w","e","h","w","e">>>>,
              <<<<"p","e","s","t","i","c","i","d","e">>, <<"m","m","o","a"," ","k","o","m","i"," ","n","n","u","r","u">>>>,
              <<<<"f","e","r","t","i","l","i","z","e","r">>, <<"w","u","r","a">>>>,
              <<<<"l","e","a","v","e","s">>, <<"n","h","a","b","a","n">>>>,
              <<<<"p","l","a","n","t","s">>, <<"n","n","u","a">>>>,
              <<<<"w","a","t","e","r">>, <<"n","s","u","o">>>>,
              <<<<"s","o","i","l">>, <<"a","s","a","s","e">>>>,
              <<<<"d","r","a","i","n","a","g","e">>, <<"n","s","u","o"," ","n","t","w","a">>>>,
              <<<<"s","p","a","c","i","n","g">>, <<"n","t","a","m"," ","k","w","a","n">>>>,
              <<<<"r","o","t","a","t","i","o","n">>, <<"s","e","s","a">>>>,
              <<<<"i","n","f","e","c","t","e","d">>, <<"a"," ","y","a","d","e","e"," ","a","t","o"," ","m","u">>>>,
              <<<<"a","f","f","e","c","t","e","d">>, <<"a"," ","e","h","y","e">>>>,
              <<<<"h","e","a","l","t","h","y">>, <<"a"," ","h","o"," ","y","e"," ","d","e","n">>>>,
              <<<<"d","i","s","e","a","s","e">>, <<"y","a","d","e","e">>>>,
              <<<<"s","y","m","p","t","o","m","s">>, <<"n","s","e","n","k","y","e","r","e","n","n","e">>>> >>
      [] targetLanguage = "ee" ->
           << <<<<"f","u","n","g","i","c","i","d","e">>, <<"a","f","u","i","f","e","w","u","a","f","e">>>>,
              <<<<"p","e","s","t","i","c","i","d","e">>, <<"n","u","d","z","o","d","z","o","e"," ","w","u","a","f","e">>>>,
              <<<<"f","e","r","t","i","l","i","z","e","r">>, <<"a","n","y","i","g","b","a","k","a","k","a">>>>,
              <<<<"l","e","a","v","e","s">>, <<"a","n","g","b","a","w","o">>>>,
              <<<<"p","l","a","n","t","s">>, <<"n","u","k","u","w","o">>>>,
              <<<<"w","a","t","e","r">>, <<"t","s","i">>>>,
              <<<<"s","o","i","l">>, <<"a","n","y","i","g","b","a">>>>,
              <<<<"d","r","a","i","n","a","g","e">>, <<"t","s","i"," ","d","o","d","o">>>>,
              <<<<"s","p","a","c","i","n","g">>, <<"d","i","d","i","f","e">>>>,
              <<<<"r","o","t","a","t","i","o","n">>, <<"d","o","d","o">>>>,
              <<<<"i","n","f","e","c","t","e","d">>, <<"s","i","w","o"," ","d","z","e">>>>,
              <<<<"a","f","f","e","c","t","e","d">>, <<"s","i","w","o"," ","d","z","e">>>>,
              <<<<"h","e","a","l","t","h","y">>, <<"l","e"," ","d","e","d","i","e"," ","m","e">>>>,
              <<<<"d","i","s","e","a","s","e">>, <<"d","o","l","e","l","e","a","f","e">>>>,
              <<<<"s","y","m","p","t","o","m","s">>, <<"d","z","e","s","i","w","o">>>> >>
      [] targetLanguage = "ga" ->
           << <<<<"f","u","n","g","i","c","i","d","e">>, <<"g","b","o","m","o"," ","k","o","m","i"," ","a","d","u","r","u">>>>,
              <<<<"p","e","s","t","i","c","i","d","e">>, <<"m","m","o","a"," ","k","o","m","i"," ","a","d","u","r","u">>>>,
              <<<<"f","e","r","t","i","l","i","z","e","r">>, <<"w","u","l","a">>>>,
              <<<<"l","e","a","v","e","s">>, <<"l","e">>>>,
              <<<<"p","l","a","n","t","s">>, <<"n","u","a">>>>,
              <<<<"w","a","t","e","r">>, <<"n","s","u">>>>,
              <<<<"s","o","i","l">>, <<"a","s","a","s","e">>>>,
              <<<<"d","r","a","i","n","a","g","e">>, <<"n","s","u"," ","d","o","d","o">>>>,
              <<<<"s","p","a","c","i","n","g">>, <<"n","t","a","m"," ","k","w","a","n">>>>,
              <<<<"r","o","t","a","t","i","o","n">>, <<"y","e","m","l","i">>>>,
              <<<<"i","n","f","e","c","t","e","d">>, <<"s","i","w","o"," ","a","y","a","r","e","s","a"," ","a","t","o"," ",
      "w","o","n"," ","m","u">>>>,
              <<<<"a","f","f","e","c","t","e","d">>, <<"s","i","w","o"," ","a","y","a","r","e","s","a"," ","k","e">>>>,
              <<<<"h","e","a","l","t","h","y">>, <<"a"," ","h","o"," ","y","e"," ","d","e","n">>>>,
              <<<<"d","i","s","e","a","s","e">>, <<"a","y","a","r","e","s","a">>>>,
              <<<<"s","y","m","p","t","o","m","s">>, <<"n","s","e","n","k","y","e","r","e","n","n","e">>>> >>
      [] targetLanguage = "dag" ->
           << <<<<"f","u","n","g","i","c","i","d","e">>, <<"n","a","n","m","a","a","r","i","y","a"," ","k","o","m","i"," ",
      "d","o","y","u","l","i">>>>,
              <<<<"p","e","s","t","i","c","i","d","e">>, <<"y","a","y","i","l","i"," ","k","o","m","i"," ","d","o","y","u",
      "l","i">>>>,
              <<<<"f","e","r","t","i","l","i","z","e","r">>, <<"w","u","l","a">>>>,
              <<<<"l","e","a","v","e","s">>, <<"g","b","a","n","a">>>>,
              <<<<"p","l","a","n","t","s">>, <<"g","b","u","l","i">>>>,
              <<<<"w","a","t","e","r">>, <<"k","o","m">>>>,
              <<<<"s","o","i","l">>, <<"t","o","g">>>>,
              <<<<"d","r","a","i","n","a","g","e">>, <<"k","o","m"," ","d","o","n","d","o","l","i">>>>,
              <<<<"s","p","a","c","i","n","g">>, <<"n","t","a","m","-","k","w","a","n">>>>,
              <<<<"r","o","t","a","t","i","o","n">>, <<"y","e","m","l","i">>>>,
              <<<<"i","n","f","e","c","t","e","d">>, <<"s","i","b","i"," ","n","a","n","m","a","a","r","i","y","a"," ","n",
      "y","e","l","a">>>>,
              <<<<"a","f","f","e","c","t","e","d">>, <<"s","i","b","i"," ","n","a","n","m","a","a","r","i","y","a"," ","n",
      "y","e","l","a">>>>,
              <<<<"h","e","a","l","t","h","y">>, <<"s","i","g","i","s","i","m">>>>,
              <<<<"d","i","s","e","a","s","e">>, <<"n","a","n","m","a","a","r","i","y","a">>>>,
              <<<<"s","y","m","p","t","o","m","s">>, <<"t","o","n","t","o","n","n","i">>>> >>
      [] OTHER -> << >>

\* OptimizedTranslationService.getInstantTranslation: diseasePatterns, each
\* with key.replace("_", " ")
optDiseasePatterns ==
    << <<<<"e","a","r","l","y"," ","b","l","i","g","h","t">>, <<"e","a","r","l","y"," ","b","l","i","g","h","t">>>>,
       <<<<"l","a","t","e"," ","b","l","i","g","h","t">>, <<"l","a","t","e"," ","b","l","i","g","h","t">>>>,
       <<<<"b","a","c","t","e","r","i","a","l"," ","s","p","o","t">>, <<"b","a","c","t","e","r","i","a","l"," ","s","p","o","t">>>>,
       <<<<"l","e","a","f"," ","c","u","r","l">>, <<"l","e","a","f"," ","c","u","r","l">>>>,
       <<<<"m","o","s","a","i","c">>, <<"m","o","s","a","i","c"," ","v","i","r","u","s">>>>,
       <<<<"h","e","a","l","t","h","y">>, <<"h","e","a","l","t","h","y">>>> >>

\* OptimizedTranslationService.translateWithPatterns: patterns
translatePatterns(targetLanguage) ==
    CASE targetLanguage = "tw" ->
           << <<<<"a","p","p","l","y"," ","f","u","n","g","i","c","i","d","e">>, <<"d","e"," ","n","n","u","r","u"," ","a"," ","e","k","o"," ",
      "t","i","a"," ","n","n","u","a"," ","n","h","w","e","h","w","e">>>>,
              <<<<"r","e","m","o","v","e"," ","a","f","f","e","c","t","e","d"," ","l","e","a","v",
      "e","s">>, <<"y","i"," ","n","h","a","b","a","n"," ","a"," ","e",
      "h","y","e"," ","n","o">>>>,
              <<<<"i","m","p","r","o","v","e"," ","d","r","a","i","n","a","g","e">>, <<"m","a"," ","n","s","u","o"," ","n","t","w","a"," ","y","i",
      "e">>>>,
              <<<<"e","n","s","u","r","e"," ","p","r","o","p","e","r"," ","s","p","a","c","i","n",
      "g">>, <<"h","w","e"," ","s","e"," ","n","t","a","m"," ","k",
      "w","a","n"," ","y","e">>>>,
              <<<<"p","r","a","c","t","i","c","e"," ","c","r","o","p"," ","r","o","t","a","t","i",
      "o","n">>, <<"d","i"," ","n","n","u","a"," ","s","e","s","a"," ",
      "a","k","y","i">>>>,
              <<<<"u","s","e"," ","r","e","s","i","s","t","a","n","t"," ","v","a","r","i","e","t",
      "i","e","s">>, <<"d","e"," ","n","n","u","a"," ","a"," ","w","o","t",
      "u","m","i"," ","k","o"," ","t","i","a"," ","y","a","d","e","e">>>>,
              <<<<"a","p","p","l","y"," ","o","r","g","a","n","i","c"," ","p","e","s","t","i","c",
      "i","d","e">>, <<"d","e"," ","a","b","o","d","e","e"," ","n","n","u",
      "r","u">>>>,
              <<<<"m","o","n","i","t","o","r"," ","r","e","g","u","l","a","r","l","y">>, <<"h","w","e"," ","d","a","a">>>>,
              <<<<"m","a","i","n","t","a","i","n"," ","g","o","o","d"," ","h","y","g","i","e","n",
      "e">>, <<"d","i"," ","a","h","i","n","y","a"," ","p","a"," ",
      "s","o">>>> >>
      [] targetLanguage = "ee" ->
           << <<<<"a","p","p","l","y"," ","f","u","n","g","i","c","i","d","e">>, <<"t","s","o"," ","a","f","u","i","f","e","w","u","a","f","e">>>>,
              <<<<"r","e","m","o","v","e"," ","a","f","f","e","c","t","e","d"," ","l","e","a","v",
      "e","s">>, <<"d","e"," ","a","n","g","b","a","w","o"," ","s","i",
      "w","o"," ","d","z","e">>>>,
              <<<<"i","m","p","r","o","v","e"," ","d","r","a","i","n","a","g","e">>, <<"n","a"," ","t","s","i"," ","d","o","d","o"," ","n","a","n",
      "y","o">>>>,
              <<<<"e","n","s","u","r","e"," ","p","r","o","p","e","r"," ","s","p","a","c","i","n",
      "g">>, <<"k","p","o"," ","e","g","b","o"," ","b","e"," ","t",
      "e","f","e"," ","n","a","n","y","o">>>>,
              <<<<"p","r","a","c","t","i","c","e"," ","c","r","o","p"," ","r","o","t","a","t","i",
      "o","n">>, <<"w","o"," ","n","u","k","u","w","o"," ","d","o","d",
      "o">>>>,
              <<<<"u","s","e"," ","r","e","s","i","s","t","a","n","t"," ","v","a","r","i","e","t",
      "i","e","s">>, <<"z","a"," ","n","u","k","u","w","o"," ","s","i","w",
      "o"," ","t","e"," ","n","u">>>> >>
      [] OTHER -> << >>

\* The terms of agriculturalTerms.json that preloadCommonTerms puts in the
\* cache of the optimized service: the English term and its translations.
agriculturalTerms ==
    << [en |-> <<"T","o","m","a","t","o">>, tr |-> [l \in {"en", "tw", "ee"} |->
            CASE l = "en" -> Str(<<"T","o","m","a","t","o">>) [] l = "tw" -> Str(<<"N","t","o","o","s","i">>)
              [] OTHER -> Str(<<"T","o","m","a","t","o","s">>)]],
       [en |-> <<"E","a","r","l","y"," ","B","l","i","g","h","t">>, tr |-> [l \in {"en", "tw"} |->
            IF l = "en" THEN Str(<<"E","a","r","l","y"," ","B","l","i","g","h","t">>) ELSE Str(<<"N","h","a","b","a","n"," ","y","a",
      "d","e","e">>)]] >>

(***************************************************************************)
(* The state.                                                              *)
(***************************************************************************)
VARIABLES
    optCache,           \* OptimizedTranslationService.cache
    pendingRequests,    \* OptimizedTranslationService.pendingRequests
    promises,           \* the promises of performTranslation, by number
    saveTimeout,        \* OptimizedTranslationService.saveTimeout: the timer that
                        \* saveCacheToStorage set last (0: none yet)
    saveTimers,         \* the timers of saveCacheToStorage that are pending
    storage,            \* localStorage: the item "translationCache"
    enhCache,           \* EnhancedGhanaNLPService.cache
    hybCache,           \* HybridTranslationService.cache
    phraseCache,        \* InstantTranslationService.phraseCache
    ghanaNLPAvailable,  \* HybridTranslationService.ghanaNLPAvailable
    metrics,            \* HybridTranslationService.performanceMetrics
    tasks,              \* the calls of the asynchronous functions, by number
    http,               \* the HTTP requests that are outstanding
    sent,               \* every HTTP request sent so far, in order, with its answer
    cleared,            \* how often OptimizedTranslationService.clearCache ran
    cooldownTimers,     \* the timers of handleGhanaNLPFailure that are pending
    now,                \* Date.now(), in hours
    restarts,           \* how often the page was loaded again
    optWritten,         \* when each entry of OptimizedTranslationService.cache was
                        \* written (for the properties)
    authFailed          \* handleGhanaNLPFailure has processed a 401 or a 403 (for
                        \* the properties)

vars == << optCache, pendingRequests, promises, saveTimeout, saveTimers, storage, enhCache, hybCache,
           phraseCache, ghanaNLPAvailable, metrics, tasks, http, sent, cleared,
           cooldownTimers, now, restarts, optWritten, authFailed >>

\* The state as one record: a handler is an operator from the state before it
\* to the state after it.
St ==
    [ optCache |-> optCache, pendingRequests |-> pendingRequests, promises |-> promises,
      saveTimeout |-> saveTimeout, saveTimers |-> saveTimers, storage |-> storage, enhCache |-> enhCache,
      hybCache |-> hybCache, phraseCache |-> phraseCache,
      ghanaNLPAvailable |-> ghanaNLPAvailable, metrics |-> metrics, tasks |-> tasks,
      http |-> http, sent |-> sent, cleared |-> cleared,
      cooldownTimers |-> cooldownTimers, now |-> now, restarts |-> restarts,
      optWritten |-> optWritten, authFailed |-> authFailed ]

\* The state after a handler is the state S0 it gives back.
Becomes(S0) ==
    \E S \in {S0} :
        /\ optCache' = S.optCache
        /\ pendingRequests' = S.pendingRequests
        /\ promises' = S.promises
        /\ saveTimeout' = S.saveTimeout
        /\ saveTimers' = S.saveTimers
        /\ storage' = S.storage
        /\ enhCache' = S.enhCache
        /\ hybCache' = S.hybCache
        /\ phraseCache' = S.phraseCache
        /\ ghanaNLPAvailable' = S.ghanaNLPAvailable
        /\ metrics' = S.metrics
        /\ tasks' = S.tasks
        /\ http' = S.http
        /\ sent' = S.sent
        /\ cleared' = S.cleared
        /\ cooldownTimers' = S.cooldownTimers
        /\ now' = S.now
        /\ restarts' = S.restarts
        /\ optWritten' = S.optWritten
        /\ authFailed' = S.authFailed

\* Map.prototype.has, get, set and delete, a Map being a function of its keys.
Has(map, k) == k \in DOMAIN map

Put(map, k, val) == [x \in DOMAIN map \cup {k} |-> IF x = k THEN val ELSE map[x]]

Delete(map, k) == [x \in DOMAIN map \ {k} |-> map[x]]

EmptyMap == [x \in {} |-> Undefined]

(***************************************************************************)
(* HTTP: the requests, and what the remote may answer.                     *)
(***************************************************************************)
BodyString(val) ==
    [ shape |-> "string", data |-> val, out |-> Undefined, translated_text |-> Undefined,
      translation |-> Undefined, result |-> Undefined, text |-> Undefined ]

BodyObject(out, translated_text, translation, result, text) ==
    [ shape |-> "object", data |-> Undefined, out |-> out, translated_text |-> translated_text,
      translation |-> translation, result |-> result, text |-> text ]

BodyNull == [BodyString(Undefined) EXCEPT !.shape = "null"]

\* A response: its status (0: no response, a network error or a timeout) and
\* its body.  axios rejects a status outside 2xx.
Response(status, body) == [status |-> status, body |-> body]

Succeeded(response) == response.status = 200

\* The error of axios for a response of this status (0: no response)
ErrorOf(status) == [ty |-> "error", v |-> <<status>>]

\* An error thrown by the code itself (a TypeError, new Error(...)): it has
\* no response.
ThrownError == [ty |-> "error", v |-> <<>>]

\* error.response?.status, a status that is undefined being falsy like 0
StatusOf(error) == IF error.v = <<>> THEN 0 ELSE error.v[1]

\* axios.post(url, {in, lang}): the request joins the outstanding ones.
\* Whether it succeeded is noted in `sent` when the answer comes.
SendHttp(S, client, owner, in, lang) ==
    LET req == [ id |-> Len(S.sent) + 1, client |-> client, owner |-> owner,
                 in |-> in, lang |-> lang, outcome |-> "none",
                 gave |-> Undefined ]
    IN  [S EXCEPT !.sent = Append(@, req), !.http = @ \cup {req}]

(***************************************************************************)
(* OptimizedTranslationService                                             *)
(***************************************************************************)
\* What a call gives back at once: a value, an exception, or a promise that is
\* still pending.
Ret(S, k, val, p) == [S |-> S, k |-> k, v |-> val, p |-> p]

\* String(x) of a value that join() meets
ToChars(x) == IF x.ty \in {"undefined", "null", "error"} THEN <<>> ELSE x.v

\* getCacheKey(text, fromLang, toLang)
OptGetCacheKey(text, fromLang, toLang) ==
    <<fromLang, toLang, collapseWhitespace(trim(toLowerCase(text.v)))>>

\* The key of pendingRequests: `${text}-${sourceLanguage}-${targetLanguage}`
OptRequestKey(text, sourceLanguage, targetLanguage) ==
    <<text.v, sourceLanguage, targetLanguage>>

\* getInstantTranslation(text, targetLanguage)
OptGetInstantTranslation(cache, text, targetLanguage) ==
    LET exactKey == OptGetCacheKey(text, "en", targetLanguage)
        TermKey(i) == OptGetCacheKey(Str(optDiseasePatterns[i][2]), "en", targetLanguage)
        Hits(low) == {i \in 1..Len(optDiseasePatterns) :
                         includes(low, optDiseasePatterns[i][1]) /\ Has(cache, TermKey(i))}
        FirstOf(hits) == IF hits # {} THEN cache[TermKey(Min(hits))] ELSE Null
    IN  IF Has(cache, exactKey) THEN cache[exactKey]
        ELSE FirstOf(Hits(toLowerCase(text.v)))

\* setTimeout gives a timer that is not pending and that differs from the one
\* this.saveTimeout holds.
NewTimer(S) ==
    Min({id \in 1..(Cardinality(S.saveTimers) + 2) :
            id \notin S.saveTimers /\ id # S.saveTimeout})

\* A saveCacheToStorage that sets a timer and leaves the one it had set before
saveCacheEveryWrite(S) ==
    [S EXCEPT !.saveTimers = @ \cup {NewTimer(S)}, !.saveTimeout = NewTimer(S)]

\* saveCacheToStorage(): clearTimeout(this.saveTimeout), and the timer is set
\* again; the save comes when it fires.
saveCacheToStorage(S) ==
    [S EXCEPT !.saveTimers = (@ \ {S.saveTimeout}) \cup {NewTimer(S)},
              !.saveTimeout = NewTimer(S)]

\* this.cache.set(cacheKey, translation)
OptCacheSet(S, cacheKey, translation) ==
    [S EXCEPT !.optCache = Put(@, cacheKey, translation),
              !.optWritten = Put(@, cacheKey, S.now)]

\* translateWithPatterns(text, targetLanguage)
translateWithPatterns(text, targetLanguage) ==
    LET pats == translatePatterns(targetLanguage)
        Hits(low) == {i \in 1..Len(pats) : includes(low, pats[i][1])}
        FirstOf(hits) ==
            IF hits = {} THEN Null
            ELSE Str(replaceAllCI(text.v, pats[Min(hits)][1], pats[Min(hits)][2], FALSE))
    IN  FirstOf(Hits(toLowerCase(text.v)))

\* translateLongText: what becomes of the sentence `trimmed`, and whether the
\* cache had it
LongTextSentence(cache, trimmed, targetLanguage, sourceLanguage) ==
    LET sentenceKey == OptGetCacheKey(trimmed, sourceLanguage, targetLanguage)
    IN  IF Has(cache, sentenceKey) THEN [cached |-> TRUE, v |-> cache[sentenceKey]]
        ELSE [cached |-> FALSE,
              v |-> Or(translateWithPatterns(trimmed, targetLanguage), trimmed)]

\* translateLongText, from its sentences on
LongTextResult(S, text, targetLanguage, sourceLanguage, finalTranslations) ==
    LET result == Str(join([i \in 1..Len(finalTranslations) |->
                               ToChars(finalTranslations[i].v)], <<".", " ">>) \o <<".">>)
    IN  IF \A i \in 1..Len(finalTranslations) : finalTranslations[i].cached
        THEN Ret(S, "value", result, 0)
        ELSE Ret(saveCacheToStorage(
                     OptCacheSet(S, OptGetCacheKey(text, sourceLanguage, targetLanguage),
                                 result)),
                 "value", result, 0)

\* translateLongText(text, targetLanguage, sourceLanguage): no request is
\* sent; the sentences come from the cache or from translateWithPatterns, or
\* stay as they are.
translateLongText(S, text, targetLanguage, sourceLanguage) ==
    LET NonBlank(s) == trim(s) # <<>>
        Sentence(s) == LongTextSentence(S.optCache, Str(trim(s)), targetLanguage,
                                        sourceLanguage)
        Each(sentences) == [i \in 1..Len(sentences) |-> Sentence(sentences[i])]
    IN  LongTextResult(S, text, targetLanguage, sourceLanguage,
                       Each(SelectSeq(splitSentences(text.v), NonBlank)))

\* performTranslation(text, targetLanguage, sourceLanguage) of a text of at
\* most 300 characters, up to its await: the request is sent.  The promise it
\* returns is promise p.
performTranslation(S, p, text, targetLanguage, sourceLanguage) ==
    [SendHttp(S, "opt", p, text, <<sourceLanguage, targetLanguage>>)
        EXCEPT !.promises = Append(@, [ text |-> text, tgt |-> targetLanguage,
                                        src |-> sourceLanguage, state |-> "pending",
                                        value |-> Undefined ])]

\* A translateText that never finds a request outstanding
IsPendingNever(S, requestKey) == FALSE

\* pendingRequests.has(requestKey)
IsPending(S, requestKey) == Has(S.pendingRequests, requestKey)

\* translateText, from its look at the cache on
OptLookup(S, text, targetLanguage, sourceLanguage) ==
    LET cacheKey == OptGetCacheKey(text, sourceLanguage, targetLanguage)
        instant == OptGetInstantTranslation(S.optCache, text, targetLanguage)
        requestKey == OptRequestKey(text, sourceLanguage, targetLanguage)
        p == Len(S.promises) + 1
    IN  IF Has(S.optCache, cacheKey) THEN Ret(S, "value", S.optCache[cacheKey], 0)
        ELSE IF Truthy(instant) THEN Ret(S, "value", instant, 0)
        ELSE IF IsPending(S, requestKey)
        THEN Ret(S, "promise", Undefined, S.pendingRequests[requestKey])
        ELSE IF Len(text.v) > LongTextLength
        THEN translateLongText(S, text, targetLanguage, sourceLanguage)
        ELSE Ret([performTranslation(S, p, text, targetLanguage, sourceLanguage)
                     EXCEPT !.pendingRequests = Put(@, requestKey, p)],
                 "promise", Undefined, p)

\* translateText(text, targetLanguage, sourceLanguage), up to its await
OptTranslateText(S, text, targetLanguage, sourceLanguage) ==
    IF targetLanguage = sourceLanguage \/ ~Truthy(text) THEN Ret(S, "value", text, 0)
        ELSE IF ~OptIsLanguageSupported(targetLanguage) THEN Ret(S, "value", text, 0)
        ELSE IF ~IsString(text) THEN Ret(S, "throw", ThrownError, 0)
        ELSE OptLookup(S, text, targetLanguage, sourceLanguage)

\* performTranslation: what it makes of a response
OptParseResponse(response, text) ==
    IF response.body.shape = "string" THEN response.body.data
    ELSE Or(response.body.out, Or(response.body.translated_text,
            Or(response.body.translation, Or(response.body.result, text))))

\* The finally of translateText: pendingRequests.delete(requestKey)
OptFinally(S, requestKey) == [S EXCEPT !.pendingRequests = Delete(@, requestKey)]

\* A performTranslation that caches the text when the request failed
OptResolveCachesFailure(S, p, response) ==
    LET pr == S.promises[p]
        translatedText ==
            IF Succeeded(response) /\ response.body.shape # "null"
            THEN OptParseResponse(response, pr.text) ELSE pr.text
    IN  saveCacheToStorage(
            OptCacheSet([S EXCEPT !.promises[p].state = "resolved",
                                  !.promises[p].value = translatedText],
                        OptGetCacheKey(pr.text, pr.src, pr.tgt), translatedText))

\* performTranslation after its await: the promise resolves, and a
\* translation is cached.  A body of null makes response.data.out throw, which
\* is caught like a failed request.
OptResolve(S, p, response) ==
    LET pr == S.promises[p]
        translatedText == OptParseResponse(response, pr.text)
    IN  IF Succeeded(response) /\ response.body.shape # "null"
        THEN saveCacheToStorage(
                 OptCacheSet([S EXCEPT !.promises[p].state = "resolved",
                                       !.promises[p].value = translatedText],
                             OptGetCacheKey(pr.text, pr.src, pr.tgt), translatedText))
        ELSE [S EXCEPT !.promises[p].state = "resolved", !.promises[p].value = pr.text]

\* The request of promise p is answered: performTranslation goes on after its
\* await, and the translateText that made the request runs its finally.
OptHttpDone(S, req, response) ==
    OptFinally(OptResolve([S EXCEPT !.http = @ \ {req}], req.owner, response),
               OptRequestKey(S.promises[req.owner].text, S.promises[req.owner].src,
                             S.promises[req.owner].tgt))

\* localStorage without the item "translationCache"
NoItem == [present |-> FALSE, data |-> EmptyMap, timestamp |-> 0, written |-> EmptyMap]

\* clearCache(): the timer of saveCacheToStorage stays.
OptClearCache(S) ==
    [S EXCEPT !.optCache = EmptyMap, !.optWritten = EmptyMap,
              !.pendingRequests = EmptyMap, !.storage = NoItem, !.cleared = @ + 1]

\* The callback of timer id of saveCacheToStorage: the item holds the
\* entries of the cache and Date.now().
OptSaveTimerFired(S, id) ==
    [S EXCEPT !.saveTimers = @ \ {id},
              !.storage = [present |-> TRUE, data |-> S.optCache, timestamp |-> S.now,
                           written |-> S.optWritten]]

\* this.cacheTimeout: 24 hours
cacheTimeout == 24

\* new Map([...a, ...b])
MapMerge(a, b) == [k \in DOMAIN a \cup DOMAIN b |-> IF k \in DOMAIN b THEN b[k] ELSE a[k]]

\* A loadCacheFromStorage that takes the item whatever its timestamp
loadCacheWhateverAge(S) ==
    IF ~S.storage.present THEN S
    ELSE [S EXCEPT !.optCache = MapMerge(@, S.storage.data),
                   !.optWritten = MapMerge(@, S.storage.written)]

\* loadCacheFromStorage()
loadCacheFromStorage(S) ==
    IF ~S.storage.present THEN S
    ELSE IF S.now - S.storage.timestamp < cacheTimeout
    THEN [S EXCEPT !.optCache = MapMerge(@, S.storage.data),
                   !.optWritten = MapMerge(@, S.storage.written)]
    ELSE [S EXCEPT !.storage = NoItem]

\* The entries that preloadCommonTerms() sets
commonTermEntries ==
    LET entries == { <<i, l>> \in (1..Len(agriculturalTerms)) \X OptSupportedLanguages :
                        /\ Len(agriculturalTerms[i].en) > 0
                        /\ l \in DOMAIN agriculturalTerms[i].tr }
        KeyOf(e) == OptGetCacheKey(Str(agriculturalTerms[e[1]].en), "en", e[2])
    IN  [k \in {KeyOf(e) : e \in entries} |->
            LET e == CHOOSE e \in entries : KeyOf(e) = k
            IN  agriculturalTerms[e[1]].tr[e[2]]]

\* preloadCommonTerms()
preloadCommonTerms(S) ==
    [S EXCEPT !.optCache = MapMerge(@, commonTermEntries),
              !.optWritten = MapMerge(@, [k \in DOMAIN commonTermEntries |-> S.now])]

(***************************************************************************)
(* The calls of the asynchronous functions.  A call that has to wait is a  *)
(* task: it records where it waits (pc) and for what (wait: a promise of   *)
(* performTranslation, or the task of a call it made).                     *)
(***************************************************************************)
\* A call that is about to be made
NewTask(fn, text, fromLang, toLang, parent) ==
    [ fn |-> fn, text |-> text, from |-> fromLang, to |-> toLang, parent |-> parent,
      pc |-> "start", wait |-> 0, retry |-> 0, hop |-> 1, cur |-> text,
      status |-> "pending", value |-> Undefined,
      texts |-> <<>>, results |-> <<>>, remaining |-> <<>>, pos |-> 0, epoch |-> 0,
      before |-> {}, error |-> Undefined ]

\* The call is made.  It notes for the properties how often the cache had been
\* cleared (epoch) and which calls had settled (before) by then.
Spawn(S, task) ==
    [S EXCEPT !.tasks = Append(@, [task EXCEPT
            !.epoch = S.cleared,
            !.before = {k \in 1..Len(S.tasks) : S.tasks[k].status # "pending"}])]

\* The call t resolves or rejects.
Settle(S, t, status, val) ==
    [S EXCEPT !.tasks[t].status = status, !.tasks[t].value = val, !.tasks[t].pc = "done"]

Finish(S, t, val) == Settle(S, t, "resolved", val)

\* The call t waits.
Suspend(S, t, pc, wait) == [S EXCEPT !.tasks[t].pc = pc, !.tasks[t].wait = wait]

(***************************************************************************)
(* EnhancedGhanaNLPService                                                 *)
(***************************************************************************)
\* getLanguagePairCode(fromLang, toLang)
getLanguagePairCode(fromLang, toLang) ==
    IF <<fromLang, toLang>> \in supportedLanguagePairs
    THEN [k |-> "direct", first |-> <<fromLang, toLang>>, second |-> <<fromLang, toLang>>]
    ELSE IF fromLang # "en" /\ toLang # "en"
    THEN [k |-> "via", first |-> <<fromLang, "en">>, second |-> <<"en", toLang>>]
    ELSE [k |-> "throw", first |-> <<fromLang, toLang>>, second |-> <<fromLang, toLang>>]

\* getCacheKey(text, langPair): `${langPair}:${text.toLowerCase().trim()}`
EnhGetCacheKey(text, langPair) == <<langPair[1], langPair[2], trim(toLowerCase(text.v))>>

\* needsTranslation(text, fromLang, toLang): "yes", "no", or "throw" when
\* text.trim is not a function
needsTranslation(text, fromLang, toLang) ==
    IF ~Truthy(text) \/ fromLang = toLang THEN "no"
    ELSE IF ~IsString(text) THEN "throw"
    ELSE IF Len(text.v) < 2 \/ IsDigits(trim(text.v)) THEN "no"
    ELSE "yes"

\* A shouldRetry that takes every error for retryable
shouldRetryAlways(error) == TRUE

\* shouldRetry(error)
shouldRetry(error) ==
    \/ StatusOf(error) = 0
    \/ StatusOf(error) >= 500
    \/ StatusOf(error) = 429
    \/ StatusOf(error) = 408

\* performSingleTranslation(text, langPairCode, retryCount), up to its await
performSingleTranslation(S, t, text, langPairCode, retryCount) ==
    [SendHttp(S, "enh", t, Str(trim(text.v)), langPairCode)
        EXCEPT !.tasks[t].pc = "http", !.tasks[t].cur = text, !.tasks[t].retry = retryCount,
               !.tasks[t].error = Undefined]

\* translateText(text, fromLang, toLang) as task t, up to its first await
EnhTranslateText(S, t) ==
    LET tk == S.tasks[t]
        need == needsTranslation(tk.text, tk.from, tk.to)
        langPair == getLanguagePairCode(tk.from, tk.to)
        cacheKey == EnhGetCacheKey(tk.text, <<tk.from, tk.to>>)
    IN  IF need = "no" THEN Finish(S, t, tk.text)
        ELSE IF need = "throw" \/ langPair.k = "throw"
        THEN Settle(S, t, "rejected", ThrownError)
        ELSE IF Has(S.enhCache, cacheKey) THEN Finish(S, t, S.enhCache[cacheKey])
        ELSE performSingleTranslation([S EXCEPT !.tasks[t].hop = 1], t, tk.text,
                                      langPair.first, 0)

\* performSingleTranslation: the text it takes from a response
EnhParseResponse(response) ==
    IF response.body.shape = "object"
    THEN Or(response.body.out, Or(response.body.translated_text,
            Or(response.body.translation, Or(response.body.result, response.body.text))))
    ELSE IF response.body.shape = "string" THEN response.body.data
    ELSE Undefined

\* The catch of performSingleTranslation of task t caught `error`: a retry
\* after a sleep, or the error is thrown on, and translateText catches it and
\* returns the text as it was.
EnhFailed(S, t, error) ==
    IF S.tasks[t].retry < maxRetries /\ shouldRetry(error)
    THEN [S EXCEPT !.tasks[t].pc = "sleep", !.tasks[t].error = error]
    ELSE Finish([S EXCEPT !.tasks[t].error = error], t, S.tasks[t].text)

\* translateText of task t has the answer `returned` of
\* performSingleTranslation: the second request of a pair that goes via
\* English, or the answer is cached and returned.
EnhTranslated(S, t, returned) ==
    LET tk == S.tasks[t]
        langPair == getLanguagePairCode(tk.from, tk.to)
    IN  IF langPair.k = "via" /\ tk.hop = 1
        THEN performSingleTranslation([S EXCEPT !.tasks[t].hop = 2], t, returned,
                                      langPair.second, 0)
        ELSE Finish([S EXCEPT !.enhCache =
                        Put(@, EnhGetCacheKey(tk.text, <<tk.from, tk.to>>), returned)],
                    t, returned)

\* performSingleTranslation of task t after its await, with the text it took
\* from the response: translatedText.trim() of a value that is no string
\* throws.
EnhAfterResponse(S, t, translatedText) ==
    IF ~Truthy(translatedText) THEN EnhTranslated(S, t, S.tasks[t].cur)
    ELSE IF ~IsString(translatedText) THEN EnhFailed(S, t, ThrownError)
    ELSE EnhTranslated(S, t, Str(trim(translatedText.v)))

\* The request of task t is answered: performSingleTranslation goes on after
\* its await, and translateText after it.
EnhHttpDone(S, req, response) ==
    IF Succeeded(response)
    THEN EnhAfterResponse([S EXCEPT !.http = @ \ {req}], req.owner,
                          EnhParseResponse(response))
    ELSE EnhFailed([S EXCEPT !.http = @ \ {req}], req.owner, ErrorOf(response.status))

\* The sleep before a retry is over: performSingleTranslation(text,
\* langPairCode, retryCount + 1)
EnhRetry(S, t) ==
    LET tk == S.tasks[t]
        langPair == getLanguagePairCode(tk.from, tk.to)
    IN  performSingleTranslation(S, t, tk.cur,
                                 IF tk.hop = 1 THEN langPair.first ELSE langPair.second,
                                 tk.retry + 1)

\* clearCache()
EnhClearCache(S) == [S EXCEPT !.enhCache = EmptyMap]

(***************************************************************************)
(* InstantTranslationService                                               *)
(***************************************************************************)
RECURSIVE ReplaceEach(_, _, _)
\* One s.replace(new RegExp(`\\b${word}\\b`, "gi"), by) after the other
ReplaceEach(s, replacements, i) ==
    IF i > Len(replacements) THEN s
    ELSE ReplaceEach(replaceAllCI(s, replacements[i][1], replacements[i][2], TRUE),
                     replacements, i + 1)

\* translateWithPhraseReplacement(text, targetLanguage)
translateWithPhraseReplacement(phrases, text, targetLanguage) ==
    LET Usable(e) == /\ Has(e.translations, targetLanguage)
                     /\ Truthy(e.translations[targetLanguage])
        FromPhrases(usable) ==
            [i \in 1..Len(usable) |->
                <<usable[i].phrase, usable[i].translations[targetLanguage].v>>]
    IN  Str(ReplaceEach(ReplaceEach(text.v, FromPhrases(SelectSeq(phrases, Usable)), 1),
                        getRapidReplacements(targetLanguage), 1))

\* The patterns that match and whose template has the language
MatchingTemplates(treatmentText, diseaseType, targetLanguage) ==
    {i \in 1..Len(diseasePatterns) :
        /\ targetLanguage \in TemplateLangs(diseasePatterns[i].template)
        /\ \/ regexTest(diseasePatterns[i].regex, diseaseType.v)
           \/ regexTest(diseasePatterns[i].regex, treatmentText.v)}

\* translateTreatmentInstantly(treatmentText, diseaseType, targetLanguage), up
\* to its await of the optimized service
translateTreatmentInstantly(S, treatmentText, diseaseType, targetLanguage) ==
    LET matching == MatchingTemplates(treatmentText, diseaseType, targetLanguage)
        rapidTranslation ==
            translateWithPhraseReplacement(S.phraseCache, treatmentText, targetLanguage)
    IN  IF targetLanguage = "en" THEN Ret(S, "value", treatmentText, 0)
        ELSE IF matching # {}
        THEN Ret(S, "value",
                 TemplateText(diseasePatterns[Min(matching)].template, targetLanguage), 0)
        ELSE IF rapidTranslation # treatmentText THEN Ret(S, "value", rapidTranslation, 0)
        ELSE OptTranslateText(S, treatmentText, targetLanguage, "en")

\* getInstantTranslation(text, targetLanguage) of a string
InstGetInstantTranslation(phrases, text, targetLanguage) ==
    LET rapid == getRapidReplacements(targetLanguage)
        ByPhrase(normalizedText) ==
            {i \in 1..Len(phrases) :
                /\ phrases[i].phrase = normalizedText
                /\ Has(phrases[i].translations, targetLanguage)
                /\ Truthy(phrases[i].translations[targetLanguage])}
        ByWord(normalizedText) == {i \in 1..Len(rapid) : rapid[i][1] = normalizedText}
        FirstOf(byPhrase, byWord) ==
            IF byPhrase # {} THEN phrases[Min(byPhrase)].translations[targetLanguage]
            ELSE IF byWord # {} THEN Str(rapid[Min(byWord)][2])
            ELSE Null
        Found(normalizedText) == FirstOf(ByPhrase(normalizedText), ByWord(normalizedText))
    IN  IF targetLanguage = "en" \/ ~Truthy(text) THEN Null
        ELSE Found(trim(toLowerCase(text.v)))

\* clearCache()
InstClearCache(S) == [S EXCEPT !.phraseCache = <<>>]

(***************************************************************************)
(* HybridTranslationService                                                *)
(***************************************************************************)
\* isDiseaseTreatment(text)
isDiseaseTreatment(text) ==
    LET HasKeyword(low) ==
            \E i \in 1..Len(treatmentKeywords) : includes(low, treatmentKeywords[i])
    IN  HasKeyword(toLowerCase(text.v)) /\ Len(text.v) > TreatmentMinLength

\* The key of the cache of the hybrid service:
\* `${tier}-${fromLang}-${toLang}-${text.toLowerCase().trim()}`
HybCacheKey(tier, text, fromLang, toLang) ==
    <<tier, fromLang, toLang, trim(toLowerCase(text.v))>>

\* tryInstantTranslation caches and returns the translation it found.
InstantSuccess(S, cacheKey, translation) ==
    Ret([S EXCEPT !.hybCache = Put(@, cacheKey, translation)], "success", translation, 0)

\* tryInstantTranslation, from the answer r of translateTreatmentInstantly on
\* (the text itself when the text is no disease treatment): it waits when the
\* answer is a pending promise; the pre-loaded terms are its last step.
TryInstantAfterTreatment(r, text, fromLang, toLang) ==
    LET cacheKey == HybCacheKey("instant", text, fromLang, toLang)
        termTranslation == InstGetInstantTranslation(r.S.phraseCache, text, toLang)
    IN  IF r.k = "promise" THEN r
        ELSE IF r.v # text THEN InstantSuccess(r.S, cacheKey, r.v)
        ELSE IF Truthy(termTranslation) THEN InstantSuccess(r.S, cacheKey, termTranslation)
        ELSE Ret(r.S, "fail", Undefined, 0)

\* tryInstantTranslation(text, fromLang, toLang), up to its await of
\* translateTreatmentInstantly: "success" with the translation, "fail", or
\* "promise" when the optimized service has a request outstanding for it.
\* text.toLowerCase() of a value that is no string throws, and the catch
\* answers { success: false }.
tryInstantTranslation(S, text, fromLang, toLang) ==
    LET cacheKey == HybCacheKey("instant", text, fromLang, toLang)
    IN  IF ~IsString(text) THEN Ret(S, "fail", Undefined, 0)
        ELSE IF Has(S.hybCache, cacheKey) THEN Ret(S, "success", S.hybCache[cacheKey], 0)
        ELSE TryInstantAfterTreatment(
                 IF isDiseaseTreatment(text)
                 THEN translateTreatmentInstantly(S, text, text, toLang)
                 ELSE Ret(S, "value", text, 0),
                 text, fromLang, toLang)

\* recordMetrics as it would be if the fallback tier were not counted
recordMetricsNoFallback(S, method) ==
    CASE method = "instant" -> [S EXCEPT !.metrics.instantHits = @ + 1]
      [] method = "ghanaNLP" -> [S EXCEPT !.metrics.ghanaNLPHits = @ + 1]
      [] method = "fallback" -> S

\* recordMetrics(method, startTime): the counters
recordMetrics(S, method) ==
    CASE method = "instant" -> [S EXCEPT !.metrics.instantHits = @ + 1]
      [] method = "ghanaNLP" -> [S EXCEPT !.metrics.ghanaNLPHits = @ + 1]
      [] method = "fallback" -> [S EXCEPT !.metrics.fallbackHits = @ + 1]

\* handleGhanaNLPFailure(error)
handleGhanaNLPFailure(S, error) ==
    IF StatusOf(error) \in {401, 403}
    THEN [S EXCEPT !.ghanaNLPAvailable = "false", !.authFailed = TRUE]
    ELSE IF StatusOf(error) = 429
    THEN [S EXCEPT !.ghanaNLPAvailable = "false", !.cooldownTimers = @ + 1]
    ELSE S

\* tryLegacyEndpoint: what it makes of a response
LegacyParseResponse(response, text) ==
    IF response.body.shape = "string" THEN response.body.data
    ELSE Or(response.body.out, Or(response.body.translated_text,
            Or(response.body.translation, text)))

\* tryFallbackTranslation of task t, after optimizedTranslationService
\* .translateText answered o: when that call throws, tryLegacyEndpoint sends
\* its request.
HybFallbackOptimized(t, o) ==
    CASE o.k = "value" -> Finish(recordMetrics(o.S, "fallback"), t, o.v)
      [] o.k = "promise" -> Suspend(o.S, t, "fallbackOptimized", o.p)
      [] o.k = "throw" ->
           Suspend(SendHttp(o.S, "legacy", t, o.S.tasks[t].text,
                            <<o.S.tasks[t].from, o.S.tasks[t].to>>),
                   t, "legacy", 0)

\* tryFallbackTranslation of task t, after its tryInstantTranslation answered
\* r: on a failure the optimized service is called, with the languages in the
\* order (text, toLang, fromLang).
HybFallbackAfterInstant(t, r) ==
    CASE r.k = "promise" -> Suspend(r.S, t, "fallbackInstant", r.p)
      [] r.k = "success" -> Finish(recordMetrics(r.S, "fallback"), t, r.v)
      [] r.k = "fail" ->
           HybFallbackOptimized(t, OptTranslateText(r.S, r.S.tasks[t].text, r.S.tasks[t].to,
                                                    r.S.tasks[t].from))

\* translateText, step 3: tryFallbackTranslation
tryFallbackTranslation(S, t) ==
    HybFallbackAfterInstant(t, tryInstantTranslation(S, S.tasks[t].text, S.tasks[t].from,
                                                     S.tasks[t].to))

\* tryGhanaNLPTranslation, after the call c of the enhanced service settled,
\* and translateText after it
HybAfterGhanaNLP(S, t, c) ==
    LET tk == S.tasks[t]
        translation == S.tasks[c].value
    IN  IF S.tasks[c].status = "resolved" /\ Truthy(translation) /\ translation # tk.text
        THEN Finish(recordMetrics(
                        [S EXCEPT !.hybCache =
                            Put(@, HybCacheKey("ghananlp", tk.text, tk.from, tk.to),
                                translation)],
                        "ghanaNLP"),
                    t, translation)
        ELSE tryFallbackTranslation(
                 IF S.tasks[c].status = "rejected"
                 THEN handleGhanaNLPFailure(S, translation) ELSE S,
                 t)

\* translateText of task t, after its first tryInstantTranslation answered r:
\* step 2, tryGhanaNLPTranslation up to its await, when the API is available,
\* and step 3 when it is not
HybAfterInstant(t, r) ==
    LET tk == r.S.tasks[t]
        c == Len(r.S.tasks) + 1
    IN  CASE r.k = "promise" -> Suspend(r.S, t, "instant", r.p)
          [] r.k = "success" -> Finish(recordMetrics(r.S, "instant"), t, r.v)
          [] r.k = "fail" ->
               IF r.S.ghanaNLPAvailable # "true" THEN tryFallbackTranslation(r.S, t)
               ELSE Suspend(EnhTranslateText(
                                Spawn(r.S, NewTask("enhTranslate", tk.text, tk.from, tk.to, t)),
                                c),
                            t, "ghanaNLP", c)

\* translateText(text, fromLang, toLang) as task t, up to its first await
HybTranslateText(S, t) ==
    HybAfterInstant(t, tryInstantTranslation([S EXCEPT !.metrics.totalRequests = @ + 1],
                                             S.tasks[t].text, S.tasks[t].from, S.tasks[t].to))

\* The request of tryLegacyEndpoint is answered.
HybLegacyDone(S, req, response) ==
    Finish(recordMetrics([S EXCEPT !.http = @ \ {req}], "fallback"), req.owner,
           IF Succeeded(response) /\ response.body.shape # "null"
           THEN LegacyParseResponse(response, S.tasks[req.owner].text)
           ELSE S.tasks[req.owner].text)

\* initialize(), after testConnection's translateText (task c) settled
HybInitialized(S, t, c) ==
    Finish([S EXCEPT !.ghanaNLPAvailable =
                   IF S.tasks[c].status = "resolved" THEN "true" ELSE "false"],
               t, Undefined)

\* initialize() as task t, up to its await: testConnection translates "Hello"
HybInitialize(S, t) ==
    Suspend(EnhTranslateText(
                    Spawn(S, NewTask("enhTranslate", Str(<<"H","e","l","l","o">>), "en", "tw", t)),
                    Len(S.tasks) + 1),
                t, "testConnection", Len(S.tasks) + 1)

\* clearCache()
HybClearCache(S) ==
    OptClearCache(InstClearCache(EnhClearCache([S EXCEPT !.hybCache = EmptyMap])))

\* The callback of the timer that handleGhanaNLPFailure set after a 429
CooldownElapsed(S) == [S EXCEPT !.ghanaNLPAvailable = "true", !.cooldownTimers = @ - 1]

(***************************************************************************)
(* batchTranslate of the three services                                    *)
(***************************************************************************)
\* An array
Arr(seq) == [ty |-> "array", v |-> seq]

\* optimizedTranslationService.translateText as task t answered r: the task
\* resolves, rejects, or waits for the promise.
OptStarted(t, r) ==
    CASE r.k = "value" -> Finish(r.S, t, r.v)
      [] r.k = "throw" -> Settle(r.S, t, "rejected", r.v)
      [] r.k = "promise" -> Suspend(r.S, t, "optimized", r.p)

\* optimizedTranslationService.translateText as task t, up to its await
OptStart(S, t) ==
    OptStarted(t, OptTranslateText(S, S.tasks[t].text, S.tasks[t].to, S.tasks[t].from))

\* The calls that batchTranslate (task c) made for the texts of its batch
BatchChildren(S, c) ==
    {k \in 1..Len(S.tasks) : S.tasks[k].parent = c /\ S.tasks[k].pos >= S.tasks[c].pos}

\* texts.map(text => translateText(text, ...)): the call for text i, which
\* runs up to its first await
BatchElementCall(S, c, i) ==
    LET tk == S.tasks[c]
        k == Len(S.tasks) + 1
    IN  IF tk.fn = "enhBatch"
        THEN EnhTranslateText(
                 Spawn(S, [NewTask("enhTranslate", tk.texts[i], tk.from, tk.to, c)
                               EXCEPT !.pos = i]), k)
        ELSE OptStart(
                 Spawn(S, [NewTask("optTranslate", tk.texts[i], tk.from, tk.to, c)
                               EXCEPT !.pos = i]), k)

RECURSIVE BatchMap(_, _, _, _)
\* texts.map(text => translateText(text, ...)) from text i to text last
BatchMap(S, c, i, last) ==
    IF i > last THEN S ELSE BatchMap(BatchElementCall(S, c, i), c, i + 1, last)

\* The element of the batch that call k answers: optimizedTranslationService
\* catches a rejection of its translateText and answers the text.
BatchElement(S, k) ==
    IF S.tasks[k].status = "rejected" THEN S.tasks[k].text ELSE S.tasks[k].value

\* Promise.all of the batch of task c: it rejects as soon as one call
\* rejects, and resolves when all have resolved.
BatchRejected(S, c) ==
    /\ S.tasks[c].fn = "enhBatch"
    /\ \E k \in BatchChildren(S, c) : S.tasks[k].status = "rejected"

BatchSettled(S, c) ==
    \/ BatchRejected(S, c)
    \/ \A k \in BatchChildren(S, c) : S.tasks[k].status # "pending"

\* batchTranslate (task c) after the Promise.all of its batch
BatchAfterAll(S, c) ==
    LET tk == S.tasks[c]
        children == BatchChildren(S, c)
        results == [i \in 1..(tk.pos + Cardinality(children) - 1) |->
                       IF i < tk.pos THEN tk.results[i]
                       ELSE BatchElement(S, CHOOSE k \in children : S.tasks[k].pos = i)]
    IN  IF BatchRejected(S, c)
        THEN Settle(S, c, "rejected",
                    S.tasks[Min({k \in children : S.tasks[k].status = "rejected"})].value)
        ELSE IF tk.fn = "enhBatch" /\ tk.pos + batchSize <= Len(tk.texts)
        THEN Suspend([S EXCEPT !.tasks[c].results = results], c, "batchSleep", 0)
        ELSE Finish([S EXCEPT !.tasks[c].results = results], c, Arr(results))

\* batchTranslate (task c): the batch that begins with text i, up to the
\* await of its Promise.all.  The enhanced service takes batchSize texts at a
\* time, the optimized service all.
BatchFrom(S, c, i) ==
    Suspend(BatchMap([S EXCEPT !.tasks[c].pos = i], c, i,
                     IF S.tasks[c].fn = "enhBatch"
                     THEN Min({i + batchSize - 1, Len(S.tasks[c].texts)})
                     ELSE Len(S.tasks[c].texts)),
            c, "batchAll", 0)

\* enhancedGhanaNLPService.batchTranslate(texts, fromLang, toLang) and
\* optimizedTranslationService.batchTranslate(texts, targetLanguage,
\* sourceLanguage) as task c, up to the first await
BatchTranslate(S, c) ==
    IF S.tasks[c].texts = <<>> THEN Finish(S, c, Arr(<<>>)) ELSE BatchFrom(S, c, 1)

\* enhancedGhanaNLPService.batchTranslate after its sleep(200)
EnhBatchNext(S, c) == BatchFrom(S, c, S.tasks[c].pos + batchSize)

\* hybridTranslationService.batchTranslate (task t), after the batchTranslate
\* it awaits (task c) settled: nothing catches a rejection.
HybBatchAfterRemote(S, t, c) ==
    LET tk == S.tasks[t]
        remainingTranslations == S.tasks[c].value.v
        results == [i \in 1..Len(tk.texts) |->
                       IF \E j \in 1..Len(tk.remaining) : tk.remaining[j] = i
                       THEN remainingTranslations[CHOOSE j \in 1..Len(tk.remaining) :
                                                      tk.remaining[j] = i]
                       ELSE tk.results[i]]
    IN  IF S.tasks[c].status = "rejected" THEN Settle(S, t, "rejected", S.tasks[c].value)
        ELSE Finish([S EXCEPT !.tasks[t].results = results], t, Arr(results))

\* hybridTranslationService.batchTranslate, after its loop, up to its await
\* of the batchTranslate of the enhanced or of the optimized service
HybBatchRemaining(S, t) ==
    LET tk == S.tasks[t]
        c == Len(S.tasks) + 1
    IN  IF tk.remaining = <<>> THEN Finish(S, t, Arr(tk.results))
        ELSE Suspend(
                 BatchTranslate(
                     Spawn(S, [NewTask(IF S.ghanaNLPAvailable = "true"
                                       THEN "enhBatch" ELSE "optBatch",
                                       Undefined, tk.from, tk.to, t)
                                  EXCEPT !.texts = [j \in 1..Len(tk.remaining) |->
                                                       tk.texts[tk.remaining[j]]]]),
                     c),
                 t, "batchRemote", c)

\* hybridTranslationService.batchTranslate: the text at pos has the answer r
\* of tryInstantTranslation, and pos moves on.
HybBatchNoted(t, r) ==
    IF r.k = "success"
    THEN [r.S EXCEPT !.tasks[t].results[r.S.tasks[t].pos] = r.v, !.tasks[t].pos = @ + 1]
    ELSE [r.S EXCEPT !.tasks[t].remaining = Append(@, r.S.tasks[t].pos),
                     !.tasks[t].pos = @ + 1]

RECURSIVE HybBatchLoop(_, _)
\* hybridTranslationService.batchTranslate: its loop has the answer r of
\* tryInstantTranslation for the text at pos, and goes on
HybBatchStep(t, r) ==
    IF r.k = "promise" THEN Suspend(r.S, t, "batchInstant", r.p)
    ELSE HybBatchLoop(HybBatchNoted(t, r), t)

\* hybridTranslationService.batchTranslate: its loop from text pos on, up to
\* an await that has to wait
HybBatchLoop(S, t) ==
    IF S.tasks[t].pos > Len(S.tasks[t].texts) THEN HybBatchRemaining(S, t)
    ELSE HybBatchStep(t, tryInstantTranslation(S, S.tasks[t].texts[S.tasks[t].pos],
                                               S.tasks[t].from, S.tasks[t].to))

\* hybridTranslationService.batchTranslate(texts, fromLang, toLang) as task t
HybBatchTranslate(S, t) ==
    IF S.tasks[t].texts = <<>> THEN Finish(S, t, Arr(<<>>))
    ELSE HybBatchLoop([S EXCEPT !.tasks[t].pos = 1,
                                !.tasks[t].results = [i \in 1..Len(S.tasks[t].texts) |->
                                                         Undefined]],
                      t)

(***************************************************************************)
(* translateDiagnosisResult of the services.  A diagnosis is                *)
(* {plant, disease, remedy, ...rest}: the call keeps the three fields in    *)
(* texts and the other properties in text.                                  *)
(***************************************************************************)
\* The object {...result, plant, disease, remedy}
Diagnosis(fields, rest) == [ty |-> "object", v |-> fields \o <<rest>>]

\* The result that call c was made with
DiagnosisOf(S, c) == Diagnosis(S.tasks[c].texts, S.tasks[c].text)

\* The translateText calls that call c made for its fields
FieldCalls(S, c) ==
    {k \in 1..Len(S.tasks) :
        S.tasks[k].parent = c /\ S.tasks[k].fn \in {"optTranslate", "enhTranslate"}}

\* this.translateText(result.plant, ...) of translateDiagnosisResult (task c):
\* the call for field i, which runs up to its first await.  The optimized
\* service leaves sourceLanguage at its default "en".
DiagnosisFieldCall(S, c, i) ==
    LET tk == S.tasks[c]
        k == Len(S.tasks) + 1
    IN  IF tk.fn = "enhDiagnosis"
        THEN EnhTranslateText(
                 Spawn(S, [NewTask("enhTranslate", tk.texts[i], "en", tk.to, c)
                               EXCEPT !.pos = i]), k)
        ELSE OptStart(
                 Spawn(S, [NewTask("optTranslate", tk.texts[i], "en", tk.to, c)
                               EXCEPT !.pos = i]), k)

RECURSIVE DiagnosisFields(_, _, _, _)
\* The array of the translateText calls for the fields i to last
DiagnosisFields(S, c, i, last) ==
    IF i > last THEN S
    ELSE DiagnosisFields(DiagnosisFieldCall(S, c, i), c, i + 1, last)

\* Promise.all of the calls of task c: it rejects as soon as one call
\* rejects, and resolves when all have resolved.
FieldsRejected(S, c) == \E k \in FieldCalls(S, c) : S.tasks[k].status = "rejected"

FieldsSettled(S, c) ==
    \/ FieldsRejected(S, c)
    \/ \A k \in FieldCalls(S, c) : S.tasks[k].status # "pending"

\* What the call for field i of task c resolved with
FieldValue(S, c, i) ==
    S.tasks[CHOOSE k \in FieldCalls(S, c) : S.tasks[k].pos = i].value

\* translateDiagnosisResult(result, targetLanguage) of the optimized and of
\* the enhanced service as task c, up to its await of Promise.all
translateDiagnosisResult(S, c) ==
    IF S.tasks[c].to = "en" THEN Finish(S, c, DiagnosisOf(S, c))
    ELSE Suspend(DiagnosisFields(S, c, 1, 3), c, "diagnosisAll", 0)

\* translateDiagnosisResult (task c) after its Promise.all: the copy with
\* the three translations, or, in the catch, the result as it was.
DiagnosisAfterAll(S, c) ==
    IF FieldsRejected(S, c) THEN Finish(S, c, DiagnosisOf(S, c))
    ELSE Finish(S, c, Diagnosis([i \in 1..3 |-> FieldValue(S, c, i)], S.tasks[c].text))

(***************************************************************************)
(* translateDiagnosisResult of the hybrid service, and                      *)
(* translateDiagnosisInstantly of the instant service that it calls first   *)
(***************************************************************************)
\* The call of translateDiagnosisResult or translateDiagnosisInstantly that
\* call c made
DiagnosisChild(S, c, service) ==
    Spawn(S, [NewTask(service, S.tasks[c].text, "en", S.tasks[c].to, c)
                  EXCEPT !.texts = S.tasks[c].texts])

\* The catch of translateDiagnosisInstantly (task c):
\* return await optimizedTranslationService.translateDiagnosisResult(...)
InstDiagnosisCatch(S, c) ==
    LET k == Len(S.tasks) + 1
    IN  Suspend(translateDiagnosisResult(DiagnosisChild(S, c, "optDiagnosis"), k),
                c, "instFallback", k)

\* translateDiagnosisInstantly (task c) with the answer r of
\* translateTreatmentInstantly(result.remedy, result.disease, targetLanguage)
InstDiagnosisRemedy(c, r) ==
    CASE r.k = "value" ->
           Finish(r.S, c, Diagnosis(<<FieldValue(r.S, c, 1), FieldValue(r.S, c, 2), r.v>>,
                                    r.S.tasks[c].text))
      [] r.k = "promise" -> Suspend(r.S, c, "instRemedy", r.p)
      [] r.k = "throw" -> InstDiagnosisCatch(r.S, c)

\* translateDiagnosisInstantly (task c) after its Promise.all of the calls
\* for plant and disease
InstDiagnosisAfterAll(S, c) ==
    IF FieldsRejected(S, c) THEN InstDiagnosisCatch(S, c)
    ELSE InstDiagnosisRemedy(c, translateTreatmentInstantly(S, S.tasks[c].texts[3],
                                                            S.tasks[c].texts[2], S.tasks[c].to))

\* translateDiagnosisInstantly(result, targetLanguage) of the instant service
\* as task c, up to its await of Promise.all
translateDiagnosisInstantly(S, c) ==
    IF S.tasks[c].to = "en" THEN Finish(S, c, DiagnosisOf(S, c))
    ELSE Suspend(DiagnosisFields(S, c, 1, 2), c, "instAll", 0)

\* isDiagnosisTranslationComplete(translated, original)
isDiagnosisTranslationComplete(translated, original) ==
    \/ translated.v[1] # original.v[1]
    \/ translated.v[2] # original.v[2]
    \/ translated.v[3] # original.v[3]

\* translateDiagnosisResult(result, targetLang) of the hybrid service as task
\* c, up to its await of translateDiagnosisInstantly
HybTranslateDiagnosisResult(S, c) ==
    LET k == Len(S.tasks) + 1
    IN  IF S.tasks[c].to = "en" THEN Finish(S, c, DiagnosisOf(S, c))
        ELSE Suspend(translateDiagnosisInstantly(DiagnosisChild(S, c, "instDiagnosis"), k),
                     c, "hybInstant", k)

\* translateDiagnosisResult of the hybrid service (task c) after
\* translateDiagnosisInstantly (task i) returned: the instant result, or the
\* call of the enhanced or of the optimized service
HybDiagnosisAfterInstant(S, c, i) ==
    LET k == Len(S.tasks) + 1
        instantResult == S.tasks[i].value
    IN  IF isDiagnosisTranslationComplete(instantResult, DiagnosisOf(S, c))
        THEN Finish(S, c, instantResult)
        ELSE Suspend(
                 translateDiagnosisResult(
                     DiagnosisChild(S, c, IF S.ghanaNLPAvailable = "true" THEN "enhDiagnosis"
                                          ELSE "optDiagnosis"), k),
                 c, "hybRemote", k)

(***************************************************************************)
(* The texts the calls are made with, and the answers of the remote.       *)
(***************************************************************************)
RECURSIVE Repeat(_, _)
\* String.prototype.repeat
Repeat(s, n) == IF n = 0 THEN <<>> ELSE s \o Repeat(s, n - 1)

TEmpty == Str(<<>>)

TBlank == Str(<<" "," "," ">>)

TNumeric == Str(<<"1","2","3","4","5","6">>)

TGreeting == Str(<<"G","o","o","d"," ","m","o","r","n","i","n","g"," ","f","a","r","m","e","r">>)

\* another text that no local tier has
TThanks == Str(<<"T","h","a","n","k"," ","y","o","u">>)

TGreetingUpper == Str(<<"G","O","O","D"," ","M","O","R","N","I","N","G"," ","F","A","R","M","E","R">>)

TGreetingPadded == Str(<<" "," ","G","o","o","d"," ","m","o","r","n","i","n","g"," ","f","a","r",
      "m","e","r"," ">>)

TGreetingSpaced == Str(<<"G","o","o","d"," "," ","m","o","r","n","i","n","g"," ","f","a","r","m",
      "e","r">>)

\* a word of getRapidReplacements
TWater == Str(<<"w","a","t","e","r">>)

\* a term of agriculturalTerms.json that matches /early.?blight/i
TBlight == Str(<<"E","a","r","l","y"," ","B","l","i","g","h","t">>)

\* matches /late.?blight/i; no keyword of isDiseaseTreatment
TLateBlight == Str(<<"L","a","t","e"," ","b","l","i","g","h","t">>)

\* a treatment (a keyword, more than 20 characters) that matches a template
TTreatTemplate == Str(<<"A","p","p","l","y"," ","f","u","n","g","i","c","i","d","e"," ","f","o","r",
      " ","e","a","r","l","y"," ","b","l","i","g","h","t">>)

\* a treatment with words of getRapidReplacements and no template
TTreatPhrase == Str(<<"R","e","m","o","v","e"," ","i","n","f","e","c","t","e","d"," ","l","e","a",
      "v","e","s"," ","q","u","i","c","k","l","y">>)

\* a treatment that no template and no phrase matches
TTreatUnknown == Str(<<"E","n","s","u","r","e"," ","g","o","o","d"," ","a","i","r","f","l","o","w",
      " ","a","r","o","u","n","d"," ","c","r","o","p","s">>)

\* The "Very long text" of testErrorHandling (ghanaNLPIntegrationTest.js),
\* repeated 3 times: 303 characters.
TLong ==
    Str(Repeat(<<"T","h","i","s"," ","i","s"," ","a"," ","v","e","r","y"," ","l","o","n","g"," ",
      "t","e","x","t"," ","t","h","a","t"," ","m","i","g","h","t"," ","e","x","c","e","e","d"," ",
      "A","P","I"," ","l","i","m","i","t","s"," ","a","n","d"," ","t","e","s","t"," ","h","o","w",
      " ","t","h","e"," ","s","y","s","t","e","m"," ","h","a","n","d","l","e","s"," ","l","a","r",
      "g","e"," ","c","o","n","t","e","n","t","."," ">>, 3))

\* Two translations the remote may give.
TrA == Str(<<"a","k","w","a","a","b","a">>)

TrB == Str(<<"m","e","d","a","a","s","e">>)

\* The answers of the remote: a string, an object with the translation in one
\* of its fields, with none, or with a number, a body of null, and the
\* failures: no response (a network error, a timeout) and the status codes.
OkResponses ==
    { Response(200, BodyString(TrA)), Response(200, BodyString(TrB)),
      Response(200, BodyObject(TrA, Undefined, Undefined, Undefined, Undefined)),
      Response(200, BodyObject(Undefined, Undefined, Undefined, Undefined, Undefined)),
      Response(200, BodyObject(Num42, Undefined, Undefined, Undefined, Undefined)),
      Response(200, BodyNull) }

FailedResponses == { Response(s, BodyNull) : s \in {0, 500, 429, 408, 401, 403, 400, 404} }

Responses == OkResponses \cup FailedResponses

\* the name of a plant that agriculturalTerms.json has
TTomato == Str(<<"T","o","m","a","t","o">>)

\* The other properties of a diagnosis (confidence: 42)
DiagnosisRest == Num42

\* The plant, the disease and the remedy of a diagnosis: texts; a plant that
\* is a number; a remedy that is absent
DiagnosisTexts == <<TTomato, TLateBlight, TTreatUnknown>>

DiagnosisNumber == <<Num42, TLateBlight, TTreatUnknown>>

DiagnosisAbsent == <<TTomato, TLateBlight, Undefined>>

\* a phrase of commonPhrases
TCropRotation == Str(<<"c","r","o","p"," ","r","o","t","a","t","i","o","n">>)

\* A diagnosis whose disease and remedy no disease pattern matches
DiagnosisUnknown == <<TTomato, TCropRotation, TTreatUnknown>>

(***************************************************************************)
(* The event loop.                                                         *)
(***************************************************************************)
\* A task whose await is over: the promise it waits for is resolved, or the
\* call it made has settled.  Its continuation is the next microtask.
Resumable(S, t) ==
    LET tk == S.tasks[t]
    IN  /\ tk.status = "pending"
        /\ CASE tk.pc \in {"optimized", "instant", "fallbackInstant", "fallbackOptimized",
                           "batchInstant", "instRemedy"} ->
                  S.promises[tk.wait].state = "resolved"
             [] tk.pc \in {"ghanaNLP", "testConnection", "batchRemote", "instFallback",
                           "hybInstant", "hybRemote"} ->
                  S.tasks[tk.wait].status # "pending"
             [] tk.pc = "batchAll" -> BatchSettled(S, t)
             [] tk.pc \in {"diagnosisAll", "instAll"} -> FieldsSettled(S, t)
             [] OTHER -> FALSE

\* No microtask is due: the next task of the event loop may run.
Idle == \E S \in {St} : \A t \in 1..Len(tasks) : ~Resumable(S, t)

\* translateTreatmentInstantly of task t got the answer of the optimized
\* service it waited for, and tryInstantTranslation goes on.
InstantResumed(S, t, text) ==
    TryInstantAfterTreatment(Ret(S, "value", S.promises[S.tasks[t].wait].value, 0), text,
                             S.tasks[t].from, S.tasks[t].to)

\* The continuation of task t
ResumeTask(S, t) ==
    LET tk == S.tasks[t]
    IN  CASE tk.pc = "optimized" -> Finish(S, t, S.promises[tk.wait].value)
          [] tk.pc = "fallbackOptimized" ->
               Finish(recordMetrics(S, "fallback"), t, S.promises[tk.wait].value)
          [] tk.pc = "instant" -> HybAfterInstant(t, InstantResumed(S, t, tk.text))
          [] tk.pc = "fallbackInstant" ->
               HybFallbackAfterInstant(t, InstantResumed(S, t, tk.text))
          [] tk.pc = "batchInstant" ->
               HybBatchStep(t, InstantResumed(S, t, tk.texts[tk.pos]))
          [] tk.pc = "ghanaNLP" -> HybAfterGhanaNLP(S, t, tk.wait)
          [] tk.pc = "testConnection" -> HybInitialized(S, t, tk.wait)
          [] tk.pc = "batchRemote" -> HybBatchAfterRemote(S, t, tk.wait)
          [] tk.pc = "batchAll" -> BatchAfterAll(S, t)
          [] tk.pc = "diagnosisAll" -> DiagnosisAfterAll(S, t)
          [] tk.pc = "instAll" -> InstDiagnosisAfterAll(S, t)
          [] tk.pc = "instRemedy" ->
               InstDiagnosisRemedy(t, Ret(S, "value", S.promises[tk.wait].value, 0))
          [] tk.pc = "instFallback" -> Finish(S, t, S.tasks[tk.wait].value)
          [] tk.pc = "hybInstant" -> HybDiagnosisAfterInstant(S, t, tk.wait)
          [] tk.pc = "hybRemote" -> Finish(S, t, S.tasks[tk.wait].value)

\* optimizedTranslationService.translateText(text, targetLanguage,
\* sourceLanguage), called by the page
OptCall(S, text, targetLanguage, sourceLanguage) ==
    OptStart(Spawn(S, NewTask("optTranslate", text, sourceLanguage, targetLanguage, 0)),
                 Len(S.tasks) + 1)

\* hybridTranslationService.batchTranslate(texts, fromLang, toLang), called by
\* the page
HybBatchCall(S, texts, fromLang, toLang) ==
    HybBatchTranslate(Spawn(S, [NewTask("hybBatch", Undefined, fromLang, toLang, 0)
                                        EXCEPT !.texts = texts]),
                          Len(S.tasks) + 1)

\* hybridTranslationService.translateText(text, fromLang, toLang), called by
\* the page
HybCall(S, text, fromLang, toLang) ==
    HybTranslateText(Spawn(S, NewTask("hybTranslate", text, fromLang, toLang, 0)),
                         Len(S.tasks) + 1)

\* enhancedGhanaNLPService.translateText(text, fromLang, toLang), called by
\* the page
EnhCall(S, text, fromLang, toLang) ==
    EnhTranslateText(Spawn(S, NewTask("enhTranslate", text, fromLang, toLang, 0)),
                     Len(S.tasks) + 1)

\* hybridTranslationService.initialize(), called by the mount effect of
\* useTranslation
HybInitializeCall(S) ==
    HybInitialize(Spawn(S, NewTask("initialize", Undefined, "en", "tw", 0)), Len(S.tasks) + 1)

\* translateDiagnosisResult(result, targetLanguage) of the optimized
\* (service = "optDiagnosis") or of the enhanced service ("enhDiagnosis"),
\* called by the page with result = {plant, disease, remedy, ...rest}
DiagnosisCall(S, service, fields, rest, targetLanguage) ==
    translateDiagnosisResult(
        Spawn(S, [NewTask(service, rest, "en", targetLanguage, 0) EXCEPT !.texts = fields]),
        Len(S.tasks) + 1)

\* hybridTranslationService.translateDiagnosisResult(result, targetLang),
\* called by the page with result = {plant, disease, remedy, ...rest}
HybDiagnosisCall(S, fields, rest, targetLang) ==
    HybTranslateDiagnosisResult(
        Spawn(S, [NewTask("hybDiagnosis", rest, "en", targetLang, 0) EXCEPT !.texts = fields]),
        Len(S.tasks) + 1)

\* The text that the answer of the remote carries, if any
TextOf(response) ==
    IF ~Succeeded(response) THEN Undefined
    ELSE IF response.body.shape = "string" THEN response.body.data
    ELSE IF response.body.shape = "object"
    THEN Or(response.body.out, Or(response.body.translated_text,
            Or(response.body.translation, Or(response.body.result, response.body.text))))
    ELSE Undefined

\* Whether the request succeeded, and the text of the answer, are noted.
Answered(S, req, response) ==
    [S EXCEPT !.sent[req.id].outcome = IF Succeeded(response) THEN "ok" ELSE "failed",
              !.sent[req.id].gave = TextOf(response)]

\* An outstanding request is answered.
HttpDone(S, req, response) ==
    CASE req.client = "opt" -> OptHttpDone(Answered(S, req, response), req, response)
      [] req.client = "enh" -> EnhHttpDone(Answered(S, req, response), req, response)
      [] req.client = "legacy" -> HybLegacyDone(Answered(S, req, response), req, response)

\* The page is loaded: the state after the constructors ran.  The cache is
\* loaded from localStorage, the terms are preloaded, and initialize() of the
\* hybrid service waits for testConnection.  localStorage, the clock and what
\* the properties count stay as in S.
PageLoad(S) ==
    HybInitialize(
        preloadCommonTerms(loadCacheFromStorage(
            [ optCache |-> EmptyMap, pendingRequests |-> EmptyMap, promises |-> <<>>,
              saveTimeout |-> 0, saveTimers |-> {}, storage |-> S.storage,
              enhCache |-> EmptyMap, hybCache |-> EmptyMap, phraseCache |-> commonPhrases,
              ghanaNLPAvailable |-> "undefined",
              metrics |-> [instantHits |-> 0, ghanaNLPHits |-> 0, fallbackHits |-> 0,
                           totalRequests |-> 0],
              tasks |-> << NewTask("initialize", Undefined, "en", "tw", 0) >>,
              http |-> {}, sent |-> S.sent, cleared |-> S.cleared, cooldownTimers |-> 0,
              now |-> S.now, restarts |-> S.restarts, optWritten |-> EmptyMap,
              authFailed |-> FALSE ])),
        1)

\* The first load of the page: nothing is stored.
Constructed ==
    PageLoad([storage |-> NoItem, sent |-> <<>>, cleared |-> 0, now |-> 0, restarts |-> 0])

\* The state once testConnection got the answer `response`.
Initialized(response) ==
    ResumeTask(HttpDone(Constructed, CHOOSE req \in Constructed.http : TRUE, response), 1)

\* The variables have the values of state S0.
StartsAs(S0) ==
    \E S \in {S0} :
        /\ optCache = S.optCache
        /\ pendingRequests = S.pendingRequests
        /\ promises = S.promises
        /\ saveTimeout = S.saveTimeout
        /\ saveTimers = S.saveTimers
        /\ storage = S.storage
        /\ enhCache = S.enhCache
        /\ hybCache = S.hybCache
        /\ phraseCache = S.phraseCache
        /\ ghanaNLPAvailable = S.ghanaNLPAvailable
        /\ metrics = S.metrics
        /\ tasks = S.tasks
        /\ http = S.http
        /\ sent = S.sent
        /\ cleared = S.cleared
        /\ cooldownTimers = S.cooldownTimers
        /\ now = S.now
        /\ restarts = S.restarts
        /\ optWritten = S.optWritten
        /\ authFailed = S.authFailed

(***************************************************************************)
(* The bounds of the model.                                                *)
(***************************************************************************)
\* The calls the page makes after a load.
MaxCalls == 2

\* The timers of handleGhanaNLPFailure that are pending at a time.
MaxCooldowns == 2

\* How often the page is loaded again.
MaxRestarts == 1

\* The hours a run lasts.
MaxTime == 24

\* The clearCache calls of a run.
MaxClears == 1

\* The translateDiagnosisResult calls of a run.
MaxDiagnoses == 1

(***************************************************************************)
(* The actions.                                                            *)
(***************************************************************************)
\* The calls the page made so far: task 1 is the initialize() of the constructor.
PageCalls == {t \in 2..Len(tasks) : tasks[t].parent = 0}

\* The page calls optimizedTranslationService.translateText.
CallOptTranslate(text, targetLanguage, sourceLanguage) ==
    /\ Idle
    /\ Cardinality(PageCalls) < MaxCalls
    /\ Becomes(OptCall(St, text, targetLanguage, sourceLanguage))

\* The page calls hybridTranslationService.translateText.
CallHybTranslate(text, fromLang, toLang) ==
    /\ Idle
    /\ Cardinality(PageCalls) < MaxCalls
    /\ Becomes(HybCall(St, text, fromLang, toLang))

\* The page calls optimizedTranslationService.clearCache.
CallOptClearCache ==
    /\ Idle
    /\ cleared < MaxClears
    /\ Becomes(OptClearCache(St))

\* The page calls hybridTranslationService.clearCache.
CallHybClearCache ==
    /\ Idle
    /\ cleared < MaxClears
    /\ Becomes(HybClearCache(St))

\* The remote answers an outstanding request, or the request fails.
HttpRespond(req, response) ==
    /\ Idle
    /\ req \in http
    /\ Becomes(HttpDone(St, req, response))

\* A sleep() of the enhanced service is over: the one before a retry, or the
\* one between two batches.
SleepTimer(t) ==
    /\ Idle
    /\ t \in 1..Len(tasks)
    /\ tasks[t].status = "pending"
    /\ tasks[t].pc \in {"sleep", "batchSleep"}
    /\ Becomes(IF tasks[t].pc = "sleep" THEN EnhRetry(St, t) ELSE EnhBatchNext(St, t))

\* The page calls hybridTranslationService.batchTranslate.
CallHybBatch(texts, fromLang, toLang) ==
    /\ Idle
    /\ Cardinality(PageCalls) < MaxCalls
    /\ Becomes(HybBatchCall(St, texts, fromLang, toLang))

\* A timer of saveCacheToStorage fires.
SaveTimer(id) ==
    /\ Idle
    /\ id \in saveTimers
    /\ Becomes(OptSaveTimerFired(St, id))

\* A microtask: the continuation of a task whose await is over.
Resume(t) ==
    /\ t \in 1..Len(tasks)
    /\ \E S \in {St} : Resumable(S, t) /\ Becomes(ResumeTask(S, t))

\* The page calls enhancedGhanaNLPService.translateText.
CallEnhTranslate(text, fromLang, toLang) ==
    /\ Idle
    /\ Cardinality(PageCalls) < MaxCalls
    /\ Becomes(EnhCall(St, text, fromLang, toLang))

\* The page calls translateDiagnosisResult of the optimized or of the
\* enhanced service.
CallTranslateDiagnosis(service, fields, targetLanguage) ==
    /\ Idle
    /\ Cardinality(PageCalls) < MaxDiagnoses
    /\ Becomes(DiagnosisCall(St, service, fields, DiagnosisRest, targetLanguage))

\* The page calls translateDiagnosisResult of the hybrid service.
CallHybDiagnosis(fields, targetLang) ==
    /\ Idle
    /\ Cardinality(PageCalls) < MaxDiagnoses
    /\ Becomes(HybDiagnosisCall(St, fields, DiagnosisRest, targetLang))

\* A component that uses useTranslation is mounted: initialize() runs again.
CallHybInitialize ==
    /\ Idle
    /\ Cardinality(PageCalls) < MaxCalls
    /\ Becomes(HybInitializeCall(St))

\* handleGhanaNLPFailure(error) is called with the error of a response of
\* the given status.
CallHandleFailure(status) ==
    /\ Idle
    /\ status = 429 => cooldownTimers < MaxCooldowns
    /\ Becomes(handleGhanaNLPFailure(St, ErrorOf(status)))

\* The oldest timer of handleGhanaNLPFailure fires.
CooldownTimer ==
    /\ Idle
    /\ cooldownTimers > 0
    /\ Becomes(CooldownElapsed(St))

\* Twelve hours pass: the timer of saveCacheToStorage (one second) has fired
\* and the requests (a timeout of seconds) have ended by then.
Tick ==
    /\ Idle
    /\ saveTimers = {}
    /\ http = {}
    /\ now + 12 <= MaxTime
    /\ Becomes([St EXCEPT !.now = @ + 12])

\* The page is loaded again: the process starts anew, localStorage stays.
Restart ==
    /\ restarts < MaxRestarts
    /\ Becomes(PageLoad([St EXCEPT !.restarts = @ + 1]))

(***************************************************************************)
(* The optimized service alone, called by the page once initialize() of    *)
(* the hybrid service is over: translateText calls and the answers of the  *)
(* remote (SpecOptCalls), and clearCache calls too (SpecOpt).              *)
(***************************************************************************)
OptTexts == {TGreeting, TGreetingPadded, TLong}

OptResponses ==
    { Response(200, BodyString(TrA)), Response(200, BodyString(TrB)),
      Response(200, BodyObject(Undefined, Undefined, Undefined, Undefined, Undefined)),
      Response(0, BodyNull) }

InitOpt == StartsAs(Initialized(Response(200, BodyString(TrA))))

\* The remote answers with one of `responses`, and what follows by itself.
Remote(responses) ==
    \/ \E req \in http, response \in responses : HttpRespond(req, response)
    \/ \E t \in 1..Len(tasks) : Resume(t)
    \/ \E id \in saveTimers : SaveTimer(id)

NextOptCalls ==
    \/ \E text \in OptTexts : CallOptTranslate(text, "tw", "en")
    \/ Remote(OptResponses)

SpecOptCalls == InitOpt /\ [][NextOptCalls]_vars

NextOpt ==
    \/ NextOptCalls
    \/ CallOptClearCache

SpecOpt == InitOpt /\ [][NextOpt]_vars

\* The timers of the browser fire, and the continuation of an await that is
\* over runs.
SpecOptLive ==
    /\ SpecOpt
    /\ WF_vars(\E id \in saveTimers : SaveTimer(id))
    /\ WF_vars(\E t \in 1..Len(tasks) : Resume(t))

(***************************************************************************)
(* The cache of the optimized service over the loads of the page           *)
(* (SpecStorage).                                                          *)
(***************************************************************************)
StoredTexts == {TGreeting, TTreatUnknown}

NextStorage ==
    \/ \E text \in StoredTexts : CallOptTranslate(text, "tw", "en")
    \/ Remote({Response(200, BodyString(TrA))})
    \/ Tick
    \/ Restart

SpecStorage == StartsAs(Constructed) /\ [][NextStorage]_vars

(***************************************************************************)
(* The hybrid service from its construction on: the page translates texts  *)
(* and clears the caches while the remote answers (Spec).                  *)
(***************************************************************************)
HybTexts == {TGreeting, TGreetingSpaced}

HybResponses == { Response(200, BodyString(TrA)), Response(200, BodyString(TrB)),
                  Response(400, BodyNull) }

Next ==
    \/ \E text \in HybTexts : CallHybTranslate(text, "en", "tw")
    \/ CallHybClearCache
    \/ Remote(HybResponses)

Spec == StartsAs(Constructed) /\ [][Next]_vars

(***************************************************************************)
(* The page translates batches (SpecBatch).                                *)
(***************************************************************************)
HybBatches == { <<TGreeting, TWater>>, <<TGreeting, Num42>>, <<TGreeting, TWater, TThanks>> }

NextBatch ==
    \/ \E texts \in HybBatches, toLang \in {"tw", "ga"} : CallHybBatch(texts, "en", toLang)
    \/ Remote({Response(200, BodyString(TrA)), Response(200, BodyString(TrB)),
               Response(400, BodyNull)})

SpecBatch == StartsAs(Constructed) /\ [][NextBatch]_vars

(***************************************************************************)
(* The page translates the texts that the tiers treat apart: white space,  *)
(* a number, a word between equal languages, the name of a disease and a   *)
(* long text (SpecTexts).                                                  *)
(***************************************************************************)
EdgeCalls ==
    { <<TBlank, "en", "tw">>, <<TNumeric, "en", "tw">>, <<TWater, "tw", "tw">>,
      <<TLateBlight, "en", "tw">>, <<TLong, "en", "tw">>, <<TTreatUnknown, "en", "tw">> }

NextTexts ==
    \/ \E call \in EdgeCalls : CallHybTranslate(call[1], call[2], call[3])
    \/ Remote({Response(200, BodyString(TrA)), Response(400, BodyNull)})

SpecTexts == InitOpt /\ [][NextTexts]_vars

(***************************************************************************)
(* The enhanced service alone: the page translates between pairs of        *)
(* languages, one call after the other, and the remote answers in every    *)
(* way (SpecEnh).                                                          *)
(***************************************************************************)
EnhCalls ==
    { <<TGreeting, "en", "tw">>, <<TGreeting, "ee", "dag">>, <<TGreeting, "ga", "tw">> }

EnhResponses ==
    { Response(200, BodyString(TrA)),
      Response(200, BodyObject(Undefined, Undefined, Str(<<>>), TrB, Undefined)),
      Response(200, BodyObject(Undefined, Undefined, Undefined, Undefined, Undefined)),
      Response(200, BodyObject(Num42, Undefined, Undefined, Undefined, Undefined)),
      Response(0, BodyNull), Response(500, BodyNull), Response(429, BodyNull),
      Response(408, BodyNull), Response(404, BodyNull), Response(401, BodyNull) }

\* The calls of the enhanced service in a run.
MaxEnhCalls == 1

NextEnh ==
    \/ /\ Cardinality(PageCalls) < MaxEnhCalls
       /\ \A t \in PageCalls : tasks[t].status # "pending"
       /\ \E call \in EnhCalls : CallEnhTranslate(call[1], call[2], call[3])
    \/ \E req \in http, response \in EnhResponses : HttpRespond(req, response)
    \/ \E t \in 1..Len(tasks) : SleepTimer(t)

SpecEnh == InitOpt /\ [][NextEnh]_vars

(***************************************************************************)
(* Whether the hybrid service takes Ghana NLP for available (SpecAvail).   *)
(***************************************************************************)
AvailResponses ==
    { Response(200, BodyString(TrA)), Response(401, BodyNull), Response(403, BodyNull),
      Response(429, BodyNull) }

NextAvail ==
    \/ /\ \A t \in PageCalls : tasks[t].status # "pending"
       /\ \/ CallHybTranslate(TGreeting, "en", "tw")
          \/ CallHybInitialize
    \/ \E status \in {401, 403, 429} : CallHandleFailure(status)
    \/ CooldownTimer
    \/ Remote(AvailResponses)
    \/ \E t \in 1..Len(tasks) : SleepTimer(t)

SpecAvail == InitOpt /\ [][NextAvail]_vars

(***************************************************************************)
(* The page translates diagnoses (SpecDiagnosis).                          *)
(***************************************************************************)
Diagnoses == {DiagnosisTexts, DiagnosisNumber, DiagnosisAbsent}

DiagnosisResponses ==
    { Response(200, BodyString(TrA)), Response(200, BodyString(TrB)),
      Response(400, BodyNull) }

\* The diagnoses that the page hands to the hybrid service
HybDiagnoses == {DiagnosisTexts, DiagnosisNumber, DiagnosisUnknown}

NextDiagnosis ==
    \/ \E service \in {"optDiagnosis", "enhDiagnosis"}, fields \in Diagnoses :
           CallTranslateDiagnosis(service, fields, "tw")
    \/ \E fields \in HybDiagnoses : CallHybDiagnosis(fields, "tw")
    \/ Remote(DiagnosisResponses)

\* testConnection of initialize() has got its answer, or the page is
\* faster than it (ghanaNLPAvailable is undefined until then).
InitDiagnosis ==
    \/ InitOpt
    \/ StartsAs(Constructed)

SpecDiagnosis == InitDiagnosis /\ [][NextDiagnosis]_vars

(***************************************************************************)
(* The properties.                                                         *)
(***************************************************************************)
\* The calls of optimizedTranslationService.translateText
OptTasks == {t \in 1..Len(tasks) : tasks[t].fn = "optTranslate"}

\* Calls a and b have the same text and languages.
SameArguments(a, b) ==
    /\ tasks[a].text = tasks[b].text
    /\ tasks[a].from = tasks[b].from
    /\ tasks[a].to = tasks[b].to

\* Call b of optimizedTranslationService.translateText was made with the
\* arguments of the earlier call a while the request of a was outstanding, and
\* both missed the cache and the static lookup: they awaited a promise.
OptConcurrent(a, b) ==
    /\ a \in OptTasks /\ b \in OptTasks /\ a < b
    /\ SameArguments(a, b)
    /\ tasks[a].wait # 0 /\ tasks[b].wait # 0
    /\ a \notin tasks[b].before

\* The requests sent for promise p of the optimized service
OptRequestsOf(p) == {i \in 1..Len(sent) : sent[i].client = "opt" /\ sent[i].owner = p}

\* C1: calls of OptimizedTranslationService.translateText with identical
\* arguments that miss the cache and the static lookup and are made while the
\* first call's request is outstanding share one remote request, none of them
\* rejects, and all of them resolve to the same string.
C1_Deduplicated ==
    \A a, b \in OptTasks :
        OptConcurrent(a, b) =>
            /\ tasks[b].wait = tasks[a].wait
            /\ Cardinality(OptRequestsOf(tasks[a].wait)) = 1
            /\ tasks[a].status # "rejected" /\ tasks[b].status # "rejected"
            /\ (tasks[a].status = "resolved" /\ tasks[b].status = "resolved"
                    => tasks[a].value = tasks[b].value /\ IsString(tasks[a].value))

\* C1, its case: two concurrent calls with identical arguments have resolved.
C1_Witness ==
    \E a, b \in OptTasks :
        /\ OptConcurrent(a, b)
        /\ tasks[a].status = "resolved" /\ tasks[b].status = "resolved"

\* The requests of the optimized service that are outstanding for a key
OptOutstanding(requestKey) ==
    {req \in http : /\ req.client = "opt"
                    /\ OptRequestKey(req.in, req.lang[1], req.lang[2]) = requestKey}

\* The keys of pendingRequests and of the outstanding requests
OptRequestKeys ==
    DOMAIN pendingRequests
        \cup {OptRequestKey(req.in, req.lang[1], req.lang[2]) : req \in {r \in http : r.client = "opt"}}

\* C2: in OptimizedTranslationService at most one remote request is
\* outstanding for a key, and pendingRequests holds an entry for a key exactly
\* while a request for that key is outstanding.
C2_PendingWhileOutstanding ==
    \A requestKey \in OptRequestKeys :
        /\ Cardinality(OptOutstanding(requestKey)) <= 1
        /\ Has(pendingRequests, requestKey) <=> OptOutstanding(requestKey) # {}

\* The calls of hybridTranslationService.translateText
HybTasks == {t \in 1..Len(tasks) : tasks[t].fn = "hybTranslate"}

\* The calls of enhancedGhanaNLPService.translateText that call t made
EnhChildren(t) == {c \in 1..Len(tasks) : tasks[c].parent = t /\ tasks[c].fn = "enhTranslate"}

\* The requests that carried this text to the remote
RequestsFor(text) == {i \in 1..Len(sent) : sent[i].in = text}

\* Call b of hybridTranslationService.translateText was made with the
\* arguments of the earlier call a before a settled, and both went to Ghana
\* NLP: no local tier had the text, and the API was marked available.
HybConcurrent(a, b) ==
    /\ a \in HybTasks /\ b \in HybTasks /\ a < b
    /\ SameArguments(a, b)
    /\ a \notin tasks[b].before
    /\ EnhChildren(a) # {} /\ EnhChildren(b) # {}

\* C3: concurrent HybridTranslationService.translateText calls with
\* identical arguments that no local tier resolves make one remote request
\* for the text in total and resolve to identical values.
C3_HybridDeduplicated ==
    \A a, b \in HybTasks :
        HybConcurrent(a, b) =>
            /\ Cardinality(RequestsFor(tasks[a].text)) = 1
            /\ (tasks[a].status = "resolved" /\ tasks[b].status = "resolved"
                    => tasks[a].value = tasks[b].value)

\* Call t of hybridTranslationService.translateText, the only call the page
\* made, went to Ghana NLP (no entry of the cache of the hybrid service, no
\* template, no phrase and no pre-loaded term matched its text), neither a
\* pre-loaded term nor a pattern of the optimized service matches the text,
\* and every request sent after initialize() failed.
HybAllFailed(t) ==
    /\ PageCalls = {t}
    /\ tasks[t].status # "pending"
    /\ EnhChildren(t) # {}
    /\ ~Truthy(OptGetInstantTranslation(commonTermEntries, tasks[t].text, tasks[t].to))
    /\ ~Truthy(translateWithPatterns(tasks[t].text, tasks[t].to))
    /\ \A i \in 2..Len(sent) : sent[i].outcome = "failed"

\* C4: HybridTranslationService.translateText never rejects and resolves to a
\* string, and when every remote call fails and no cache entry, template or
\* phrase matches the text it resolves to exactly the input text.
C4_FallbackIsInput ==
    \A t \in HybTasks :
        /\ tasks[t].status # "rejected"
        /\ tasks[t].status = "resolved" => IsString(tasks[t].value)
        /\ HybAllFailed(t) => tasks[t].value = tasks[t].text

\* The calls of hybridTranslationService.batchTranslate
HybBatchTasks == {t \in 1..Len(tasks) : tasks[t].fn = "hybBatch"}

\* C5: HybridTranslationService.batchTranslate never rejects, for every target
\* language and every array of texts: it resolves with one text for each
\* element.
C5_BatchNeverRejects ==
    \A t \in HybBatchTasks :
        /\ tasks[t].status # "rejected"
        /\ tasks[t].status = "resolved" => Len(tasks[t].value.v) = Len(tasks[t].texts)

\* C6: HybridTranslationService.translateText(text, L, L) returns the text
\* unchanged, for every language L.
C6_SameLanguageIsIdentity ==
    \A t \in HybTasks :
        tasks[t].from = tasks[t].to /\ tasks[t].status # "pending"
            => tasks[t].status = "resolved" /\ tasks[t].value = tasks[t].text

\* The text is empty, white space only, or digits only.
BlankOrNumeric(text) == trim(text.v) = <<>> \/ IsDigits(trim(text.v))

\* C7: for a text that is empty, white space only or purely numeric,
\* HybridTranslationService.translateText returns the text unchanged, and no
\* service sends a remote request on its behalf.
C7_BlankOrNumericStaysLocal ==
    /\ \A t \in HybTasks :
           BlankOrNumeric(tasks[t].text) /\ tasks[t].status # "pending"
               => tasks[t].status = "resolved" /\ tasks[t].value = tasks[t].text
    /\ \A i \in 1..Len(sent) : ~BlankOrNumeric(sent[i].in)

\* C8: for a text that matches a compiled disease pattern whose template has
\* the target language, HybridTranslationService.translateText returns that
\* template entry and sends no remote request.
C8_TemplateFirst ==
    \A t \in HybTasks :
        LET matching == MatchingTemplates(tasks[t].text, tasks[t].text, tasks[t].to)
        IN  tasks[t].from # tasks[t].to /\ matching # {} =>
                /\ tasks[t].status = "resolved" =>
                       \E i \in matching :
                           tasks[t].value = TemplateText(diseasePatterns[i].template, tasks[t].to)
                /\ RequestsFor(Str(trim(tasks[t].text.v))) = {}

\* Call b of optimizedTranslationService.translateText was made with the
\* arguments of call a after a had settled.
OptSequential(a, b) ==
    /\ a \in OptTasks /\ b \in OptTasks
    /\ SameArguments(a, b)
    /\ a \in tasks[b].before

\* C9: of two sequential OptimizedTranslationService.translateText calls with
\* identical arguments the second awaits no remote request and returns the
\* string the first returned, however the remote behaved.
C9_SecondCallFromCache ==
    \A a, b \in OptTasks :
        OptSequential(a, b) =>
            /\ tasks[b].wait = 0
            /\ tasks[b].status = "resolved" => tasks[b].value = tasks[a].value

\* The text in lower case, trimmed, each run of white space one space
Normalized(text) == collapseWhitespace(trim(toLowerCase(text.v)))

\* Call a of hybridTranslationService.translateText resolved to a translation
\* of the remote, call b was made after that for a text that differs from
\* the text of a in letter case and white space at most, and the caches
\* were not cleared meanwhile.
HybRepeated(a, b) ==
    /\ a \in HybTasks /\ b \in HybTasks
    /\ Normalized(tasks[a].text) = Normalized(tasks[b].text)
    /\ tasks[a].from = tasks[b].from /\ tasks[a].to = tasks[b].to
    /\ a \in tasks[b].before
    /\ tasks[a].epoch = cleared
    /\ \E c \in EnhChildren(a) : tasks[c].value = tasks[a].value /\ tasks[a].value # tasks[a].text

\* C10: two texts that differ only in letter case, leading or trailing white
\* space or the length of runs of white space have the same key in the caches
\* of the hybrid and of the enhanced service, and after one was resolved and
\* cached the other is a cache hit without a remote request.
C10_NormalizedCacheKeys ==
    \A a, b \in HybTasks :
        HybRepeated(a, b) =>
            /\ HybCacheKey("ghananlp", tasks[a].text, tasks[a].from, tasks[a].to)
                   = HybCacheKey("ghananlp", tasks[b].text, tasks[b].from, tasks[b].to)
            /\ EnhGetCacheKey(tasks[a].text, <<tasks[a].from, tasks[a].to>>)
                   = EnhGetCacheKey(tasks[b].text, <<tasks[b].from, tasks[b].to>>)
            /\ \A c \in EnhChildren(b) : \A i \in 1..Len(sent) :
                   ~(sent[i].client = "enh" /\ sent[i].owner = c)
            /\ tasks[b].status = "resolved" => tasks[b].value = tasks[a].value

\* The page is loaded in this step: the constructors run.
Restarted == restarts' # restarts

\* C11: no entry of the cache that was written 24 hours ago or earlier is
\* loaded from localStorage: after a load of the page every entry of
\* optimizedTranslationService.cache is younger than cacheTimeout, also when
\* other entries were written or saved later.
C11_NoStaleEntryLoaded ==
    [][Restarted => \A k \in DOMAIN optCache' : now' - optWritten'[k] < cacheTimeout]_vars

\* C12: on construction loadCacheFromStorage discards the persisted cache,
\* loading none of its entries and removing the item, if and only if
\* now - timestamp >= 24 h; otherwise it loads every persisted entry; without
\* an item the cache has the pre-loaded terms only.
C12_LoadOrDiscard ==
    [][Restarted =>
          IF ~storage.present
          THEN ~storage'.present /\ optCache' = commonTermEntries
          ELSE IF now - storage.timestamp >= cacheTimeout
          THEN ~storage'.present /\ optCache' = commonTermEntries
          ELSE /\ storage' = storage
               /\ \A k \in DOMAIN storage.data :
                      k \in DOMAIN optCache' /\ optCache'[k] = storage.data[k]]_vars

\* C12, its case: the page was loaded, and the cache has an entry that is no
\* pre-loaded term and was written before the load.
C12_Witness ==
    /\ restarts > 0
    /\ storage.present
    /\ \E k \in DOMAIN optCache : k \notin DOMAIN commonTermEntries /\ optWritten[k] < now

\* The calls of enhancedGhanaNLPService.translateText
EnhTasks == {t \in 1..Len(tasks) : tasks[t].fn = "enhTranslate"}

\* The error is a failed request: no response, or a status outside 2xx.
RequestFailure(error) == error.ty = "error" /\ error.v # <<>>

\* The failures that the retry policy names: no status (a network error or a
\* timeout), 5xx, 429 and 408.
Retryable(status) == status = 0 \/ status >= 500 \/ status = 429 \/ status = 408

\* The requests that call t of the enhanced service sent with this lang code
EnhAttempts(t, lang) ==
    {i \in 1..Len(sent) : sent[i].client = "enh" /\ sent[i].owner = t /\ sent[i].lang = lang}

C17_ParseableNeverThrows ==
    \A t \in EnhTasks :
        tasks[t].error.ty = "error" => RequestFailure(tasks[t].error)

\* C19: every request that the enhanced service sends carries a lang code of
\* supportedLanguagePairs.
C19_SupportedLangCodes ==
    \A i \in 1..Len(sent) : sent[i].client = "enh" => sent[i].lang \in supportedLanguagePairs

\* The calls of the enhanced service whose pair of languages goes via English
ViaTasks == {t \in EnhTasks : getLanguagePairCode(tasks[t].from, tasks[t].to).k = "via"}

\* The text that the remote gave to the request that call t sent last
LastGiven(t) ==
    LET mine == {i \in 1..Len(sent') : sent'[i].client = "enh" /\ sent'[i].owner = t}
    IN  sent'[CHOOSE i \in mine : \A j \in mine : j <= i].gave

\* C18: a translateText of the enhanced service that goes via English and of
\* which a hop fails returns the text and writes nothing to the cache; when
\* both hops succeed it writes one entry under the key of the pair of source
\* and target, which is the translation the remote gave for the second hop;
\* the intermediate English text is cached under no key.
C18_ViaEnglishCaching ==
    [][\A t \in ViaTasks :
           IF tasks[t].status = "pending" /\ tasks'[t].status # "pending"
           THEN IF tasks'[t].error.ty = "error"
                THEN /\ tasks'[t].value = tasks[t].text
                     /\ enhCache' = enhCache
                ELSE /\ enhCache' = Put(enhCache,
                                        EnhGetCacheKey(tasks[t].text, <<tasks[t].from, tasks[t].to>>),
                                        tasks'[t].value)
                     /\ IsString(LastGiven(t))
                     /\ tasks'[t].value = Str(trim(LastGiven(t).v))
           ELSE tasks[t].status = "pending" => enhCache' = enhCache]_vars

\* The statuses that handleGhanaNLPFailure takes for hard failures
HardFailures == {401, 403, 429}

\* C14: when a request sent on behalf of a HybridTranslationService
\* .translateText ended with the status 401, 403 or 429, ghanaNLPAvailable is
\* false when that translateText resolves.
C14_HardFailureDisables ==
    [][\A t \in HybTasks :
           /\ tasks[t].status = "pending" /\ tasks'[t].status = "resolved"
           /\ \E c \in EnhChildren(t) :
                  RequestFailure(tasks[c].error) /\ tasks[c].error.v[1] \in HardFailures
           => ghanaNLPAvailable' = "false"]_vars

\* C15: once handleGhanaNLPFailure has processed a 401 or a 403,
\* ghanaNLPAvailable is false in every later state.
C15_AuthFailureIsPermanent == authFailed => ghanaNLPAvailable = "false"

\* C16: after handleGhanaNLPFailure processed a 429, ghanaNLPAvailable is
\* false as long as the cooldown of the most recent 429 has not elapsed (a
\* timer is pending), and true once the last timer has fired.
C16_CooldownFromLast429 ==
    /\ [](cooldownTimers > 0 => ghanaNLPAvailable = "false")
    /\ [][cooldownTimers > 0 /\ cooldownTimers' = 0 => ghanaNLPAvailable' = "true"]_vars

\* The sentences of a long text that neither the pre-loaded cache nor the
\* patterns translate
SentencesLeft(text, targetLanguage, sourceLanguage) ==
    LET sentences == splitSentences(text.v)
    IN  {i \in 1..Len(sentences) :
            /\ trim(sentences[i]) # <<>>
            /\ ~Has(commonTermEntries,
                    OptGetCacheKey(Str(trim(sentences[i])), sourceLanguage, targetLanguage))
            /\ ~Truthy(translateWithPatterns(Str(trim(sentences[i])), targetLanguage))}

\* C20: for a text of more than 300 characters of which a sentence is left
\* untranslated by the cache and the patterns, OptimizedTranslationService
\* makes exactly one remote call (here for the first call of the page, whose
\* cache has the pre-loaded terms only).
C20_LongTextOneRemoteCall ==
    \A t \in OptTasks :
        /\ PageCalls = {t}
        /\ tasks[t].status = "resolved"
        /\ Len(tasks[t].text.v) > LongTextLength
        /\ SentencesLeft(tasks[t].text, tasks[t].to, tasks[t].from) # {}
        => Cardinality({i \in 1..Len(sent) : sent[i].client = "opt"}) = 1


\* `out` is the translation of `text`: the text itself (no tier translated
\* it), what the static lookup of the instant service has for it, or what the
\* remote gave for a request that carried it.
TranslationOf(text, out, toLang) ==
    \/ out = text
    \/ /\ IsString(text)
       /\ Truthy(InstGetInstantTranslation(commonPhrases, text, toLang))
       /\ out = InstGetInstantTranslation(commonPhrases, text, toLang)
    \/ /\ IsString(text) /\ IsString(out)
       /\ \E i \in 1..Len(sent) :
              /\ trim(sent[i].in.v) = trim(text.v)
              /\ IsString(sent[i].gave)
              /\ trim(sent[i].gave.v) = trim(out.v)

\* The array that batchTranslate call t returned has an element for each
\* text, element i being the translation of texts[i].
BatchKeepsIndices(t) ==
    /\ Len(tasks[t].value.v) = Len(tasks[t].texts)
    /\ \A i \in 1..Len(tasks[t].texts) :
           TranslationOf(tasks[t].texts[i], tasks[t].value.v[i], tasks[t].to)

\* C21: batchTranslate returns an array of the length of its input in which
\* element i is the translation of texts[i], whichever tier resolved the
\* element and in whichever order the requests were answered.
C21_BatchKeepsIndices ==
    \A t \in 1..Len(tasks) :
        tasks[t].fn \in {"hybBatch", "enhBatch", "optBatch"} /\ tasks[t].status # "pending"
            => tasks[t].status = "resolved" /\ BatchKeepsIndices(t)

\* The calls of translateDiagnosisResult of the optimized and of the enhanced
\* service that the page made, for a target that is not English
DiagnosisTasks ==
    {t \in 1..Len(tasks) :
        /\ tasks[t].fn \in {"optDiagnosis", "enhDiagnosis"}
        /\ tasks[t].parent = 0
        /\ tasks[t].to # "en"}

\* Field i of the object that call t returned is the result of the
\* translateText call for the field when the field is a string, and the field
\* as it was when it is absent or no string.
FieldTranslated(t, i) ==
    IF IsString(tasks[t].texts[i])
    THEN \E k \in 1..Len(tasks) :
            /\ tasks[k].parent = t /\ tasks[k].pos = i
            /\ tasks[k].status = "resolved"
            /\ tasks[t].value.v[i] = tasks[k].value
    ELSE tasks[t].value.v[i] = tasks[t].texts[i]

\* C22: translateDiagnosisResult of the optimized and of the enhanced service
\* returns a copy in which each of plant, disease and remedy that is a string
\* is replaced by its translateText result, a field that is absent or no
\* string is passed through without keeping the others from being
\* translated, and the other properties are preserved.
C22_DiagnosisFieldsTranslated ==
    \A t \in DiagnosisTasks :
        tasks[t].status # "pending" =>
            /\ tasks[t].status = "resolved"
            /\ \A i \in 1..3 : FieldTranslated(t, i)
            /\ tasks[t].value.v[4] = tasks[t].text

\* The texts that the static lookup resolves right after the construction: a
\* phrase of commonPhrases and a term of agriculturalTerms.json
StaticTexts == {TCropRotation, TTomato}

\* What the static lookup of state S gives for the text: getInstantTranslation
\* of the instant service, its phrase replacement, and getInstantTranslation
\* of the optimized service
StaticLookup(S, text, lang) ==
    << InstGetInstantTranslation(S.phraseCache, text, lang),
       translateWithPhraseReplacement(S.phraseCache, text, lang),
       OptGetInstantTranslation(S.optCache, text, lang) >>

\* The static lookup of state S resolves the text in way j.
StaticResolves(S, text, lang, j) ==
    /\ Truthy(StaticLookup(S, text, lang)[j])
    /\ StaticLookup(S, text, lang)[j] # text

\* C23: the static store of terms, patterns and phrases is not mutated after
\* it is loaded: a text that the static lookup resolved right after the
\* initialization is resolved by it to the same value after every sequence of
\* translateText and clearCache calls.
C23_StaticStoreImmutable ==
    \A text \in StaticTexts : \A j \in 1..3 :
        StaticResolves(Constructed, text, "tw", j)
            => StaticLookup(St, text, "tw")[j] = StaticLookup(Constructed, text, "tw")[j]

\* A step that writes a translation to the cache of the optimized service:
\* the cache changes without being cleared, or a request of the service is
\* answered with a translation.
CacheWriteStep ==
    \/ optCache' # optCache /\ cleared' = cleared
    \/ \E i \in 1..Len(sent) :
           /\ sent[i].client = "opt"
           /\ sent[i].outcome = "none"
           /\ sent'[i].outcome = "ok"

\* A step that writes the item "translationCache" to localStorage
DurableWriteStep == storage' # storage /\ storage'.present

\* A step in which translateText is called and the cache is only read
CacheReadStep == Len(tasks') > Len(tasks) /\ optCache' = optCache

OptMisses == {t \in OptTasks : tasks[t].wait # 0}

\* The key of the cache for the text and the languages of a request
KeyOfRequest(req) == OptGetCacheKey(req.in, req.lang[1], req.lang[2])

\* C25: for a text of at most 300 characters that misses the cache and the
\* static lookup, OptimizedTranslationService.translateText issues exactly
\* one remote request, which carries the full text.  When the request
\* succeeds, exactly one cache entry is written, under the normalized key,
\* and it is present when the promise of the caller resolves; when it fails,
\* the original text is returned and the cache is left unchanged.
C25_OneRequestOneWrite ==
    /\ [](\A t \in OptMisses :
             /\ Cardinality(OptRequestsOf(tasks[t].wait)) = 1
             /\ \A i \in OptRequestsOf(tasks[t].wait) :
                    /\ sent[i].in = tasks[t].text
                    /\ sent[i].lang = <<tasks[t].from, tasks[t].to>>
                    /\ tasks[t].status # "rejected"
                    /\ tasks[t].status = "resolved" =>
                           tasks[t].value = IF sent[i].outcome = "ok"
                                            THEN Or(sent[i].gave, tasks[t].text)
                                            ELSE tasks[t].text)
    /\ [][ /\ \A i \in 1..Len(sent) :
                  sent[i].client = "opt" /\ sent[i].outcome = "none" =>
                      /\ sent'[i].outcome = "ok" =>
                             optCache' = Put(optCache, KeyOfRequest(sent[i]),
                                             Or(sent'[i].gave, sent[i].in))
                      /\ sent'[i].outcome = "failed" => optCache' = optCache
           /\ \A t \in OptMisses :
                  /\ tasks[t].status = "pending" /\ tasks'[t].status = "resolved"
                  /\ \E i \in OptRequestsOf(tasks[t].wait) : sent[i].outcome = "ok"
                  => /\ Has(optCache', OptGetCacheKey(tasks[t].text, tasks[t].from, tasks[t].to))
                     /\ optCache'[OptGetCacheKey(tasks[t].text, tasks[t].from, tasks[t].to)]
                            = tasks'[t].value ]_vars

\* A call that missed has resolved with the translation the remote gave, and
\* the cache holds it; another has resolved with its text after its request
\* failed.
C25_Witness ==
    /\ \E t \in OptMisses : \E i \in OptRequestsOf(tasks[t].wait) :
           /\ tasks[t].status = "resolved"
           /\ sent[i].outcome = "ok" /\ tasks[t].value = sent[i].gave
           /\ tasks[t].value # tasks[t].text
           /\ Has(optCache, OptGetCacheKey(tasks[t].text, tasks[t].from, tasks[t].to))
    /\ \E t \in OptMisses : \E i \in OptRequestsOf(tasks[t].wait) :
           /\ tasks[t].status = "resolved"
           /\ sent[i].outcome = "failed" /\ tasks[t].value = tasks[t].text

\* C26: step 1 of HybridTranslationService.translateText
\* (tryInstantTranslation) resolves from the in-memory cache, the templates
\* and the phrase substitution only: no call is in its step 1 on behalf of a
\* request to the remote, so that no instant hit needed a remote call.
C26_InstantTierIsLocal ==
    \A t \in HybTasks :
        tasks[t].pc = "instant" => OptRequestsOf(tasks[t].wait) = {}

\* Request i goes to /api/ghana-nlp/translate on behalf of a call of
\* hybridTranslationService.translateText: the request of the optimized
\* service, or a request of the enhanced service for such a call.
ForHybridToGhanaNLP(req, S) ==
    \/ req.client = "opt"
    \/ /\ req.client = "enh"
       /\ S.tasks[req.owner].parent \in {t \in 1..Len(S.tasks) : S.tasks[t].fn = "hybTranslate"}

\* C27: while ghanaNLPAvailable is false, no request is sent to the Ghana NLP
\* translation endpoint on behalf of a HybridTranslationService.translateText
\* call, through any tier.
C27_NoRequestWhileUnavailable ==
    [][ghanaNLPAvailable = "false" =>
           \A i \in (Len(sent) + 1)..Len(sent') :
               \E S \in {[tasks |-> tasks']} : ~ForHybridToGhanaNLP(sent'[i], S)]_vars

\* The calls of hybridTranslationService.translateText that have not returned
HybInFlight == {t \in HybTasks : tasks[t].status = "pending"}

\* The three hit counters of performanceMetrics together
HitsOf(m) == m.instantHits + m.ghanaNLPHits + m.fallbackHits

\* The calls of translateText that return in this step
HybReturning ==
    {t \in 1..Len(tasks') : /\ tasks'[t].fn = "hybTranslate"
                            /\ tasks'[t].status # "pending"
                            /\ (t > Len(tasks) \/ tasks[t].status = "pending")}

\* C28: In HybridTranslationService the three hit counters and the number of
\* translateText calls in flight add up to totalRequests in every reachable
\* state, and a step in which calls of translateText return raises exactly
\* one hit counter by one for each of them (and no step else changes a hit
\* counter).
C28_MetricsAddUp ==
    /\ [](HitsOf(metrics) + Cardinality(HybInFlight) = metrics.totalRequests)
    /\ [][ /\ HitsOf(metrics') - HitsOf(metrics) = Cardinality(HybReturning)
           /\ Cardinality(HybReturning) <= 1
           /\ metrics'.instantHits >= metrics.instantHits
           /\ metrics'.ghanaNLPHits >= metrics.ghanaNLPHits
           /\ metrics'.fallbackHits >= metrics.fallbackHits ]_vars

\* C28 happens: a call has returned from the Ghana NLP tier while another
\* call is in flight.
C28_Witness ==
    /\ metrics.ghanaNLPHits > 0
    /\ HybInFlight # {}

\* No call has been started since clearCache ran last.
NoCallSinceClear ==
    /\ cleared > 0
    /\ \A t \in 1..Len(tasks) : tasks[t].epoch < cleared

\* C29: After OptimizedTranslationService.clearCache() has run, and as long
\* as no call of translateText is started afterwards, the cache in memory
\* stays empty and durable storage holds no 'translationCache' item, also
\* when a remote request was in flight or a save was pending at clearCache.
C29_ClearCacheStays ==
    NoCallSinceClear => optCache = EmptyMap /\ ~storage.present

\* C29, its part on the cache in memory
C29_CacheStaysEmpty ==
    NoCallSinceClear => optCache = EmptyMap

\* C29, its part on durable storage
C29_NoItemReappears ==
    NoCallSinceClear => ~storage.present

\* The calls of hybridTranslationService.translateDiagnosisResult that have
\* returned
HybDiagnosisReturned ==
    {t \in 1..Len(tasks) : tasks[t].fn = "hybDiagnosis" /\ tasks[t].status = "resolved"}

\* The calls of translateDiagnosisResult of the enhanced or of the optimized
\* service that call t of the hybrid service made
RemoteDiagnoses(t) ==
    {k \in 1..Len(tasks) : tasks[k].parent = t /\ tasks[k].fn \in {"enhDiagnosis", "optDiagnosis"}}

\* The fields of the diagnosis of call t that its result leaves as they were
FieldsLeft(t) == {i \in 1..3 : tasks[t].value.v[i] = tasks[t].texts[i]}

\* C30: HybridTranslationService.translateDiagnosisResult returns the result
\* of the instant tier only when plant, disease and remedy are all
\* translated in it; when one of them is left equal to the original it goes
\* on to the remote tier (the enhanced service when available, else the
\* optimized service).
C30_InstantOnlyWhenComplete ==
    \A t \in HybDiagnosisReturned :
        RemoteDiagnoses(t) = {} => FieldsLeft(t) = {}

\* The same with the test that the code makes: some field is translated.
C30_InstantWhenOneTranslated ==
    \A t \in HybDiagnosisReturned :
        RemoteDiagnoses(t) = {} <=> FieldsLeft(t) # 1..3

====
